---- MODULE Spec2Model ----
(***************************************************************************)
(* Model of the vibe-code configuration core: the JSON config store       *)
(* (src/src/core/config-manager.ts), the schemas (src/src/types/index.ts),*)
(* the mode manager (src/unnamed/part_008) and the init, mode, config and *)
(* start commands (src/src/commands/init.ts, src/unnamed/part_001,        *)
(* src/unnamed/part_000) as the CLI entry (src/unnamed/part_009) runs     *)
(* them.                                                                   *)
(*                                                                         *)
(* JSON values are tagged: Str(s) is a JSON string, Arr(a) a JSON array   *)
(* of strings.  A JavaScript object is a function from its defined keys   *)
(* to JSON values; a key whose value is undefined is not in the domain    *)
(* (JSON.stringify drops it, "??" and zod's optional() treat it as        *)
(* missing).                                                               *)
(***************************************************************************)
EXTENDS Integers, Sequences, FiniteSets, TLC

VARIABLES
  globalFile,   \* ~/.vibe/config.json
  projectFile,  \* <root>/.vibe/config.json
  claudeMd,     \* <root>/CLAUDE.md
  now,          \* file-system clock, stamps every write
  last,         \* outcome of the last command, with the files it started from
  mIn,          \* arguments of the last direct mergeConfigs call
  mOut,         \* its return value
  procs,        \* the processes running: where each one stands and what it holds
  tree          \* the directories around the templates directory, and the target directory

vars == <<globalFile, projectFile, claudeMd, now, last, mIn, mOut, procs, tree>>

\* Largest value of the file-system clock explored.
MaxClock == 1

\* Largest time at which a command of a command sequence starts.
MaxTime == 2

\* Largest number of signals delivered to a start that waits for Claude Code.
MaxSignals == 2

-----------------------------------------------------------------------------
\* JSON values and objects

Str(s) == [kind |-> "str", val |-> s]
Arr(a) == [kind |-> "arr", val |-> a]

IsStr(v) == v.kind = "str"
IsArr(v) == v.kind = "arr"

EmptyObj == [k \in {} |-> Str("")]

\* o restricted to the keys in K
Pick(o, K) == [k \in (DOMAIN o) \cap K |-> o[k]]

\* { [k]: v } : the spread of the existing object forgotten
Spread_modeOnly(o, k, v) == [x \in {k} |-> v]

\* { ...o, [k]: v }
Spread(o, k, v) == [x \in (DOMAIN o) \cup {k} |-> IF x = k THEN v ELSE o[x]]

\* o.k : <<v>> when o defines k, <<>> (undefined) otherwise
Get(o, k) == IF k \in DOMAIN o THEN <<o[k]>> ELSE <<>>

\* a ?? b
Nullish(a, b) == IF Len(a) > 0 THEN a ELSE b

\* an object literal { k: f[k], ... }: the keys whose value is undefined are dropped
Obj(f) == [k \in {x \in DOMAIN f : Len(f[x]) > 0} |-> f[k][1]]

\* null, as returned for a missing project config
Null == [null |-> TRUE]

\* x ?? {}
OrEmpty(x) == IF x = Null THEN EmptyObj ELSE x

-----------------------------------------------------------------------------
\* Result<T>

Ok(d) == [success |-> TRUE, data |-> d]
Err(e) == [success |-> FALSE, error |-> e]

ErrNotInitialized == "Project not initialized. Run 'vibe init' first."
ErrIO == "io error"
ErrSyntax == "Unexpected token in JSON"
ErrValidation == "zod validation error"

-----------------------------------------------------------------------------
\* Schemas (src/src/types/index.ts)

ModeSchema == {"learning", "guided", "expert"}
ChecklistTypeSchema == {"pre", "post", "owasp", "api", "full", "none"}
StandardTypeSchema == {"typescript", "api"}

IsEnum(v, S) == IsStr(v) /\ v.val \in S
IsArrayOfEnum(v, S) == IsArr(v) /\ \A i \in 1..Len(v.val) : v.val[i] \in S

DEFAULT_CONFIG ==
  [mode |-> Str("guided"),
   customPrompts |-> Arr(<<>>),
   includeSecurityChecklist |-> Str("pre"),
   includeStandards |-> Arr(<<"typescript">>)]

ProjectKeys ==
  {"mode", "projectName", "template", "customPrompts",
   "includeSecurityChecklist", "includeStandards"}

GlobalKeys ==
  {"defaultMode", "editor", "claudeCodePath",
   "includeSecurityChecklist", "includeStandards"}

\* the type each schema key accepts
FieldOK(k, v) ==
  CASE k \in {"mode", "defaultMode"} -> IsEnum(v, ModeSchema)
    [] k = "includeSecurityChecklist" -> IsEnum(v, ChecklistTypeSchema)
    [] k = "includeStandards" -> IsArrayOfEnum(v, StandardTypeSchema)
    [] k = "customPrompts" -> IsArr(v)
    [] OTHER -> IsStr(v)

\* ProjectConfigSchema.parse: every field optional, unknown keys stripped
ProjectConfigSchema(o) ==
  IF \A k \in (DOMAIN o) \cap ProjectKeys : FieldOK(k, o[k])
  THEN Ok(Pick(o, ProjectKeys))
  ELSE Err(ErrValidation)

GlobalDefaults ==
  [defaultMode |-> Str("guided"),
   includeSecurityChecklist |-> Str("pre"),
   includeStandards |-> Arr(<<"typescript">>)]

\* GlobalConfigSchema without the .default() of its three fields
GlobalConfigSchema_noDefaults(o) ==
  IF \A k \in (DOMAIN o) \cap GlobalKeys : FieldOK(k, o[k])
  THEN Ok(Pick(o, GlobalKeys))
  ELSE Err(ErrValidation)

\* GlobalConfigSchema.parse: three defaulted fields, two optional, unknown keys stripped
GlobalConfigSchema(o) ==
  IF \A k \in (DOMAIN o) \cap GlobalKeys : FieldOK(k, o[k])
  THEN Ok([k \in ((DOMAIN o) \cap GlobalKeys) \cup DOMAIN GlobalDefaults |->
             IF k \in DOMAIN o THEN o[k] ELSE GlobalDefaults[k]])
  ELSE Err(ErrValidation)

-----------------------------------------------------------------------------
\* Files

\* a config file: absent, present with text that is not JSON, or a JSON object
Absent == [exists |-> FALSE, json |-> FALSE, obj |-> EmptyObj, mtime |-> 0]
Garbage(t) == [exists |-> TRUE, json |-> FALSE, obj |-> EmptyObj, mtime |-> t]
JsonFile(o, t) == [exists |-> TRUE, json |-> TRUE, obj |-> o, mtime |-> t]

\* the derived document: absent, or the document built from a merged config
NoDoc == [exists |-> FALSE, builtFrom |-> EmptyObj, mtime |-> 0]
Doc(c, t) == [exists |-> TRUE, builtFrom |-> c, mtime |-> t]

-----------------------------------------------------------------------------
\* Config store (src/src/core/config-manager.ts)

Throw(e) == [success |-> FALSE, error |-> e, thrown |-> TRUE]

fileExists(file) == file.exists

\* schema.parse(json) for the schema of that name
SchemaParse(schema, o) ==
  IF schema = "GlobalConfigSchema" THEN GlobalConfigSchema(o) ELSE ProjectConfigSchema(o)

\* readJsonFile that returns the parsed JSON without validating it
readJsonFile_unvalidated(file, schema, ioFail) ==
  IF ~fileExists(file) THEN Err("File not found")
  ELSE IF ioFail THEN Err(ErrIO)
  ELSE IF ~file.json THEN Err(ErrSyntax)
  ELSE Ok(file.obj)

\* ioFail: readFile rejects (permission, I/O error)
readJsonFile(file, schema, ioFail) ==
  IF ~fileExists(file) THEN Err("File not found")
  ELSE IF ioFail THEN Err(ErrIO)
  ELSE IF ~file.json THEN Err(ErrSyntax)
  ELSE SchemaParse(schema, file.obj)

\* writeJsonFile that writes the object without JSON.stringify
writeJsonFile_noStringify(file, data, wfault, t) ==
  CASE wfault = "denied" -> [file |-> file, result |-> Err(ErrIO)]
    [] wfault = "partial" -> [file |-> Garbage(t), result |-> Err(ErrIO)]
    [] OTHER -> [file |-> Garbage(t), result |-> Ok("void")]

\* wfault: "none", "denied" (mkdir/open rejects, file untouched) or
\* "partial" (writeFile rejects after truncating the file)
writeJsonFile(file, data, wfault, t) ==
  CASE wfault = "denied" -> [file |-> file, result |-> Err(ErrIO)]
    [] wfault = "partial" -> [file |-> Garbage(t), result |-> Err(ErrIO)]
    [] OTHER -> [file |-> JsonFile(data, t), result |-> Ok("void")]

readGlobalConfig(gf, ioFail) ==
  IF ~fileExists(gf)
  THEN Ok(Obj([defaultMode |-> Get(DEFAULT_CONFIG, "mode"),
               includeSecurityChecklist |-> Get(DEFAULT_CONFIG, "includeSecurityChecklist"),
               includeStandards |-> Get(DEFAULT_CONFIG, "includeStandards")]))
  ELSE readJsonFile(gf, "GlobalConfigSchema", ioFail)

\* GlobalConfigSchema.parse throws on a schema violation, before anything is written
writeGlobalConfig(gf, config, wfault, t) ==
  LET validated == GlobalConfigSchema(config) IN
  IF ~validated.success
  THEN [file |-> gf, result |-> Throw(validated.error)]
  ELSE writeJsonFile(gf, validated.data, wfault, t)

\* readProjectConfig that answers a missing file with an empty config
readProjectConfig_emptyWhenAbsent(pf, ioFail) ==
  IF ~fileExists(pf) THEN Ok(EmptyObj)
  ELSE readJsonFile(pf, "ProjectConfigSchema", ioFail)

\* readProjectConfig that treats an unreadable or invalid file as no config
readProjectConfig_lenient(pf, ioFail) ==
  IF ~fileExists(pf) THEN Ok(Null)
  ELSE IF ~readJsonFile(pf, "ProjectConfigSchema", ioFail).success THEN Ok(Null)
  ELSE readJsonFile(pf, "ProjectConfigSchema", ioFail)

readProjectConfig(pf, ioFail) ==
  IF ~fileExists(pf) THEN Ok(Null)
  ELSE readJsonFile(pf, "ProjectConfigSchema", ioFail)

\* ProjectConfigSchema.parse throws on a schema violation, before anything is written
writeProjectConfig(pf, config, wfault, t) ==
  LET validated == ProjectConfigSchema(config) IN
  IF ~validated.success
  THEN [file |-> pf, result |-> Throw(validated.error)]
  ELSE writeJsonFile(pf, validated.data, wfault, t)

\* isProjectInitialized that never reports a missing project
isProjectInitialized_always(pf) == TRUE

\* isProjectInitialized that also asks for a file that parses and validates
isProjectInitialized_valid(pf) ==
  fileExists(pf) /\ readJsonFile(pf, "ProjectConfigSchema", FALSE).success

isProjectInitialized(pf) == fileExists(pf)

\* mergeConfigs with the global default taking precedence over the project mode
mergeConfigs_globalWins(global, project) ==
  LET p == OrEmpty(project) IN
  Obj([mode |-> Nullish(Get(global, "defaultMode"), Get(p, "mode")),
       editor |-> Get(global, "editor"),
       claudeCodePath |-> Get(global, "claudeCodePath"),
       projectName |-> Get(p, "projectName"),
       template |-> Get(p, "template"),
       customPrompts |-> Nullish(Get(p, "customPrompts"), Get(DEFAULT_CONFIG, "customPrompts")),
       includeSecurityChecklist |->
         Nullish(Get(p, "includeSecurityChecklist"),
                 Nullish(Get(global, "includeSecurityChecklist"),
                         Get(DEFAULT_CONFIG, "includeSecurityChecklist"))),
       includeStandards |->
         Nullish(Get(p, "includeStandards"),
                 Nullish(Get(global, "includeStandards"),
                         Get(DEFAULT_CONFIG, "includeStandards")))])

\* mergeConfigs letting a project object override the editor
mergeConfigs_projectEditor(global, project) ==
  LET p == OrEmpty(project) IN
  Obj([mode |-> Nullish(Get(p, "mode"), Get(global, "defaultMode")),
       editor |-> Nullish(Get(p, "editor"), Get(global, "editor")),
       claudeCodePath |-> Get(global, "claudeCodePath"),
       projectName |-> Get(p, "projectName"),
       template |-> Get(p, "template"),
       customPrompts |-> Nullish(Get(p, "customPrompts"), Get(DEFAULT_CONFIG, "customPrompts")),
       includeSecurityChecklist |->
         Nullish(Get(p, "includeSecurityChecklist"),
                 Nullish(Get(global, "includeSecurityChecklist"),
                         Get(DEFAULT_CONFIG, "includeSecurityChecklist"))),
       includeStandards |->
         Nullish(Get(p, "includeStandards"),
                 Nullish(Get(global, "includeStandards"),
                         Get(DEFAULT_CONFIG, "includeStandards")))])

\* mergeConfigs without the hardcoded fallbacks
mergeConfigs_noDefaults(global, project) ==
  LET p == OrEmpty(project) IN
  Obj([mode |-> Nullish(Get(p, "mode"), Get(global, "defaultMode")),
       editor |-> Get(global, "editor"),
       claudeCodePath |-> Get(global, "claudeCodePath"),
       projectName |-> Get(p, "projectName"),
       template |-> Get(p, "template"),
       customPrompts |-> Get(p, "customPrompts"),
       includeSecurityChecklist |->
         Nullish(Get(p, "includeSecurityChecklist"),
                 Get(global, "includeSecurityChecklist")),
       includeStandards |->
         Nullish(Get(p, "includeStandards"),
                 Get(global, "includeStandards"))])

mergeConfigs(global, project) ==
  LET p == OrEmpty(project) IN
  Obj([mode |-> Nullish(Get(p, "mode"), Get(global, "defaultMode")),
       editor |-> Get(global, "editor"),
       claudeCodePath |-> Get(global, "claudeCodePath"),
       projectName |-> Get(p, "projectName"),
       template |-> Get(p, "template"),
       customPrompts |-> Nullish(Get(p, "customPrompts"), Get(DEFAULT_CONFIG, "customPrompts")),
       includeSecurityChecklist |->
         Nullish(Get(p, "includeSecurityChecklist"),
                 Nullish(Get(global, "includeSecurityChecklist"),
                         Get(DEFAULT_CONFIG, "includeSecurityChecklist"))),
       includeStandards |->
         Nullish(Get(p, "includeStandards"),
                 Nullish(Get(global, "includeStandards"),
                         Get(DEFAULT_CONFIG, "includeStandards")))])

loadConfig(gf, pf, ioFail) ==
  LET globalResult == readGlobalConfig(gf, ioFail) IN
  IF ~globalResult.success THEN globalResult
  ELSE LET projectResult == readProjectConfig(pf, ioFail) IN
       IF ~projectResult.success THEN projectResult
       ELSE Ok(mergeConfigs(globalResult.data, projectResult.data))

\* initProject that writes only the fields given, without the defaults
initProject_bare(pf, options, wfault, t) ==
  LET config ==
        Obj([mode |-> Get(options, "mode"),
             projectName |-> Get(options, "projectName"),
             template |-> Get(options, "template"),
             customPrompts |-> Get(options, "customPrompts"),
             includeSecurityChecklist |-> Get(options, "includeSecurityChecklist"),
             includeStandards |-> Get(options, "includeStandards")])
      w == writeProjectConfig(pf, config, wfault, t)
  IN [file |-> w.file, result |-> IF ~w.result.success THEN w.result ELSE Ok(config)]

\* options: the fields given (a Partial<ProjectConfig>)
initProject(pf, options, wfault, t) ==
  LET config ==
        Obj([mode |-> Nullish(Get(options, "mode"), Get(DEFAULT_CONFIG, "mode")),
             projectName |-> Get(options, "projectName"),
             template |-> Get(options, "template"),
             customPrompts |-> Nullish(Get(options, "customPrompts"), <<Arr(<<>>)>>),
             includeSecurityChecklist |->
               Nullish(Get(options, "includeSecurityChecklist"),
                       Get(DEFAULT_CONFIG, "includeSecurityChecklist")),
             includeStandards |->
               Nullish(Get(options, "includeStandards"),
                       Get(DEFAULT_CONFIG, "includeStandards"))])
      w == writeProjectConfig(pf, config, wfault, t)
  IN [file |-> w.file, result |-> IF ~w.result.success THEN w.result ELSE Ok(config)]

-----------------------------------------------------------------------------
\* Prompt builder (core/prompt-builder)

ClaudeMdPath == "CLAUDE.md"

\* writes the whole document from the merged config, or fails and leaves it
buildClaudeMd(md, config, fail, t) ==
  IF fail THEN [file |-> md, result |-> Err("Failed to write CLAUDE.md")]
  ELSE [file |-> Doc(config, t), result |-> Ok(ClaudeMdPath)]

-----------------------------------------------------------------------------
\* Mode manager (src/unnamed/part_008)

AVAILABLE_MODES == <<"learning", "guided", "expert">>

\* the message of a rejected mode: the offending text and the modes it lists
InvalidMode(value) == [invalid |-> value, validModes |-> AVAILABLE_MODES]

\* parseMode that folds the case of its argument before the lookup
parseMode_caseInsensitive(value) ==
  LET lower == CASE value \in {"Learning", "LEARNING"} -> "learning"
                 [] value \in {"Guided", "GUIDED"} -> "guided"
                 [] value \in {"Expert", "EXPERT"} -> "expert"
                 [] OTHER -> value
  IN IF lower \in ModeSchema THEN Ok(lower) ELSE Err(InvalidMode(value))

\* ModeSchema.safeParse(value): an exact match against the enum
parseMode(value) ==
  IF value \in ModeSchema THEN Ok(value) ELSE Err(InvalidMode(value))

\* the step at which an I/O fault strikes during one switchMode call
Faults == {"none", "loadConfig", "readProjectConfig", "writeDenied",
           "writePartial", "reload", "build"}

WFault(fault) ==
  CASE fault = "writeDenied" -> "denied"
    [] fault = "writePartial" -> "partial"
    [] OTHER -> "none"

AllSteps ==
  <<"isProjectInitialized", "loadConfig", "readProjectConfig",
    "writeProjectConfig", "loadConfig", "buildClaudeMd">>

\* what one switchMode call leaves: the two files it may write, its Result
\* and the steps it ran (a prefix of AllSteps)
Outcome(p, d, r, n) ==
  [project |-> p, claudeMd |-> d, result |-> r, steps |-> SubSeq(AllSteps, 1, n)]

\* switchModeRegenerate that restores the previous mode when the build fails
switchModeRegenerate_rollback(gf, pf, md, previousMode, newMode, fault, t) ==
  LET newConfigResult == loadConfig(gf, pf, fault = "reload")
      buildResult == buildClaudeMd(md, newConfigResult.data, fault = "build", t)
  IN
  IF ~newConfigResult.success THEN Outcome(pf, md, newConfigResult, 5)
  ELSE IF ~buildResult.result.success
  THEN Outcome(JsonFile([k \in DOMAIN pf.obj |->
                           IF k = "mode" THEN Str(previousMode) ELSE pf.obj[k]], t),
               md, buildResult.result, 6)
  ELSE Outcome(pf, buildResult.file,
               Ok([previousMode |-> previousMode, newMode |-> newMode,
                   claudeMdPath |-> buildResult.result.data]), 6)

\* reload the merged config and regenerate CLAUDE.md, once the project config
\* has been written as pf
switchModeRegenerate(gf, pf, md, previousMode, newMode, fault, t) ==
  LET newConfigResult == loadConfig(gf, pf, fault = "reload")
      buildResult == buildClaudeMd(md, newConfigResult.data, fault = "build", t)
  IN
  IF ~newConfigResult.success THEN Outcome(pf, md, newConfigResult, 5)
  ELSE IF ~buildResult.result.success THEN Outcome(pf, md, buildResult.result, 6)
  ELSE Outcome(pf, buildResult.file,
               Ok([previousMode |-> previousMode, newMode |-> newMode,
                   claudeMdPath |-> buildResult.result.data]), 6)

\* read the raw project config, overwrite its mode and write it back
switchModeUpdate(gf, pf, md, previousMode, newMode, fault, t, dt) ==
  LET projectConfigResult == readProjectConfig(pf, fault = "readProjectConfig")
      updatedConfig == Spread(OrEmpty(projectConfigResult.data), "mode", Str(newMode))
      w == writeProjectConfig(pf, updatedConfig, WFault(fault), t)
  IN
  IF ~projectConfigResult.success THEN Outcome(pf, md, projectConfigResult, 3)
  ELSE IF ~w.result.success THEN Outcome(w.file, md, w.result, 4)
  ELSE switchModeRegenerate(gf, w.file, md, previousMode, newMode, fault, t + dt)

\* switchMode that reads the previous mode only after the new one is decided
switchMode_lateCapture(gf, pf, md, newMode, fault, t, dt) ==
  LET initialized == isProjectInitialized(pf)
      configResult == loadConfig(gf, pf, fault = "loadConfig")
      previousMode == newMode
  IN
  IF ~initialized THEN Outcome(pf, md, Err(ErrNotInitialized), 1)
  ELSE IF ~configResult.success THEN Outcome(pf, md, configResult, 2)
  ELSE switchModeUpdate(gf, pf, md, previousMode, newMode, fault, t, dt)

\* switchMode that returns early when the mode does not change
switchMode_skipSame(gf, pf, md, newMode, fault, t, dt) ==
  LET initialized == isProjectInitialized(pf)
      configResult == loadConfig(gf, pf, fault = "loadConfig")
      previousMode == configResult.data["mode"].val
  IN
  IF ~initialized THEN Outcome(pf, md, Err(ErrNotInitialized), 1)
  ELSE IF ~configResult.success THEN Outcome(pf, md, configResult, 2)
  ELSE IF previousMode = newMode
  THEN Outcome(pf, md, Ok([previousMode |-> previousMode, newMode |-> newMode,
                           claudeMdPath |-> ClaudeMdPath]), 2)
  ELSE switchModeUpdate(gf, pf, md, previousMode, newMode, fault, t, dt)

\* switchMode(projectRoot, newMode) started at time t on the files gf, pf, md;
\* the document is written dt after the config
switchMode(gf, pf, md, newMode, fault, t, dt) ==
  LET initialized == isProjectInitialized(pf)
      configResult == loadConfig(gf, pf, fault = "loadConfig")
      previousMode == configResult.data["mode"].val
  IN
  IF ~initialized THEN Outcome(pf, md, Err(ErrNotInitialized), 1)
  ELSE IF ~configResult.success THEN Outcome(pf, md, configResult, 2)
  ELSE switchModeUpdate(gf, pf, md, previousMode, newMode, fault, t, dt)

-----------------------------------------------------------------------------
\* Start command (src/unnamed/part_000)

\* needsRegeneration that also regenerates on equal timestamps
needsRegeneration_orEqual(pf, md, statFail) ==
  IF statFail \/ ~pf.exists \/ ~md.exists THEN TRUE
  ELSE pf.mtime >= md.mtime

\* needsRegeneration that compares no timestamps
needsRegeneration_missingOnly(pf, md, statFail) ==
  statFail \/ ~pf.exists \/ ~md.exists

\* statFail: stat rejects for a file that exists (permission error)
needsRegeneration(pf, md, statFail) ==
  IF statFail \/ ~pf.exists \/ ~md.exists THEN TRUE
  ELSE pf.mtime > md.mtime

\* CLI exit codes (src/src/types/index.ts)
ExitCode ==
  [SUCCESS |-> 0, GENERAL_ERROR |-> 1, INVALID_ARGUMENT |-> 2, CONFIG_ERROR |-> 3,
   NOT_FOUND |-> 4, PERMISSION_DENIED |-> 5]

\* how one command ends: the files it leaves, the code it exits with, what
\* ended it, the steps it ran and whether it called runClaudeCode
Exit(gf, pf, md, code, cause, steps, launched) ==
  [global |-> gf, project |-> pf, claudeMd |-> md, exit |-> code, cause |-> cause,
   steps |-> steps, launched |-> launched]

\* the steps of a start, each with whether it succeeded: --mode adds
\* switchMode, no --regenerate adds the staleness check, a regeneration adds
\* buildClaudeMd; the last n steps are not reached, those in failed fail
StartSteps(modeGiven, regenerate, shouldRegenerate, n, failed) ==
  LET all == <<"isProjectInitialized">>
               \o (IF modeGiven THEN <<"switchMode">> ELSE <<>>)
               \o <<"loadConfig">>
               \o (IF regenerate THEN <<>> ELSE <<"needsRegeneration">>)
               \o (IF shouldRegenerate THEN <<"buildClaudeMd">> ELSE <<>>)
               \o <<"runClaudeCode">>
  IN [i \in 1..(Len(all) - n) |-> [step |-> all[i], ok |-> all[i] \notin failed]]

\* startCommand that launches although the regeneration failed
startCommand_launchAnyway(gf, pf, md, options, sfault, fault, child, t, dt) ==
  LET modeGiven == Len(options.mode) > 0
      sw == switchMode(gf, pf, md, options.mode[1], sfault, t, dt)
      pf1 == IF modeGiven THEN sw.project ELSE pf
      md1 == IF modeGiven THEN sw.claudeMd ELSE md
      configResult == loadConfig(gf, pf1, fault = "loadConfig")
      shouldRegenerate ==
        options.regenerate \/ needsRegeneration(pf1, md1, fault = "stat")
      buildResult == buildClaudeMd(md1, configResult.data, fault = "build", t + dt)
      md2 == IF shouldRegenerate THEN buildResult.file ELSE md1
      buildFailed ==
        IF shouldRegenerate /\ ~buildResult.result.success THEN {"buildClaudeMd"} ELSE {}
  IN
  IF ~isProjectInitialized(pf)
  THEN Exit(gf, pf, md, ExitCode.CONFIG_ERROR, "notInitialized",
            <<[step |-> "isProjectInitialized", ok |-> FALSE]>>, FALSE)
  ELSE IF modeGiven /\ ~sw.result.success
  THEN Exit(gf, pf1, md1, ExitCode.CONFIG_ERROR, "switchMode",
            StartSteps(TRUE, TRUE, FALSE, 2, {"switchMode"}), FALSE)
  ELSE IF ~configResult.success
  THEN Exit(gf, pf1, md1, ExitCode.CONFIG_ERROR, "config",
            StartSteps(modeGiven, TRUE, FALSE, 1, {"loadConfig"}), FALSE)
  ELSE IF fault = "launch"
  THEN Exit(gf, pf1, md2, ExitCode.GENERAL_ERROR, "launch",
            StartSteps(modeGiven, options.regenerate, shouldRegenerate, 0,
                       buildFailed \cup {"runClaudeCode"}), TRUE)
  ELSE Exit(gf, pf1, md2, child, "claude",
            StartSteps(modeGiven, options.regenerate, shouldRegenerate, 0, buildFailed), TRUE)

\* startCommand(options) started at time t on the files gf, pf, md.
\* sfault: the fault striking the switchMode of --mode; fault: the one
\* striking a later step; child: the exit code of Claude Code
startCommand(gf, pf, md, options, sfault, fault, child, t, dt) ==
  LET modeGiven == Len(options.mode) > 0
      sw == switchMode(gf, pf, md, options.mode[1], sfault, t, dt)
      pf1 == IF modeGiven THEN sw.project ELSE pf
      md1 == IF modeGiven THEN sw.claudeMd ELSE md
      configResult == loadConfig(gf, pf1, fault = "loadConfig")
      shouldRegenerate ==
        options.regenerate \/ needsRegeneration(pf1, md1, fault = "stat")
      buildResult == buildClaudeMd(md1, configResult.data, fault = "build", t + dt)
      md2 == IF shouldRegenerate THEN buildResult.file ELSE md1
  IN
  IF ~isProjectInitialized(pf)
  THEN Exit(gf, pf, md, ExitCode.CONFIG_ERROR, "notInitialized",
            <<[step |-> "isProjectInitialized", ok |-> FALSE]>>, FALSE)
  ELSE IF modeGiven /\ ~sw.result.success
  THEN Exit(gf, pf1, md1, ExitCode.CONFIG_ERROR, "switchMode",
            StartSteps(TRUE, TRUE, FALSE, 2, {"switchMode"}), FALSE)
  ELSE IF ~configResult.success
  THEN Exit(gf, pf1, md1, ExitCode.CONFIG_ERROR, "config",
            StartSteps(modeGiven, TRUE, FALSE, 1, {"loadConfig"}), FALSE)
  ELSE IF shouldRegenerate /\ ~buildResult.result.success
  THEN Exit(gf, pf1, md1, ExitCode.GENERAL_ERROR, "regeneration",
            StartSteps(modeGiven, options.regenerate, shouldRegenerate, 1,
                       {"buildClaudeMd"}), FALSE)
  ELSE IF fault = "launch"
  THEN Exit(gf, pf1, md2, ExitCode.GENERAL_ERROR, "launch",
            StartSteps(modeGiven, options.regenerate, shouldRegenerate, 0,
                       {"runClaudeCode"}), TRUE)
  ELSE Exit(gf, pf1, md2, child, "claude",
            StartSteps(modeGiven, options.regenerate, shouldRegenerate, 0, {}), TRUE)

\* validateModeOption, then startCommand: the action of `vibe start`
startAction(gf, pf, md, opts, sfault, fault, child, t, dt) ==
  IF Len(opts.mode) > 0 /\ opts.mode[1] \notin ModeSchema
  THEN Exit(gf, pf, md, ExitCode.INVALID_ARGUMENT, "argument", <<>>, FALSE)
  ELSE startCommand(gf, pf, md, opts, sfault, fault, child, t, dt)

-----------------------------------------------------------------------------
\* Init and mode commands (src/src/commands/init.ts), CLI entry (src/unnamed/part_009)

\* initCommand that takes --yes as the consent to overwrite
initCommand_yesOverwrites(gf, pf, md, options, answers, fault, t, dt) ==
  LET alreadyInitialized == isProjectInitialized(pf)
      prompted == Len(options.mode) = 0 /\ ~options.yes
      mode == IF Len(options.mode) > 0 THEN options.mode[1]
              ELSE IF options.yes THEN "guided"
              ELSE answers.mode
      initResult == initProject(pf, [mode |-> Str(mode)], WFault(fault), t)
      configResult == loadConfig(gf, initResult.file, fault = "loadConfig")
      buildResult == buildClaudeMd(md, configResult.data, fault = "build", t + dt)
  IN
  IF alreadyInitialized /\ ~options.force /\ ~options.yes /\ ~answers.overwrite
  THEN Exit(gf, pf, md, ExitCode.SUCCESS, "cancelled", <<"isProjectInitialized">>, FALSE)
  ELSE IF prompted /\ ~answers.continue
  THEN Exit(gf, pf, md, ExitCode.SUCCESS, "cancelled", <<"isProjectInitialized">>, FALSE)
  ELSE IF ~initResult.result.success
  THEN Exit(gf, initResult.file, md, ExitCode.CONFIG_ERROR, "config",
            <<"isProjectInitialized", "initProject">>, FALSE)
  ELSE IF ~configResult.success
  THEN Exit(gf, initResult.file, md, ExitCode.CONFIG_ERROR, "config",
            <<"isProjectInitialized", "initProject", "loadConfig">>, FALSE)
  ELSE IF ~buildResult.result.success
  THEN Exit(gf, initResult.file, md, ExitCode.GENERAL_ERROR, "regeneration",
            <<"isProjectInitialized", "initProject", "loadConfig", "buildClaudeMd">>, FALSE)
  ELSE Exit(gf, initResult.file, buildResult.file, ExitCode.SUCCESS, "done",
            <<"isProjectInitialized", "initProject", "loadConfig", "buildClaudeMd">>, FALSE)

\* initCommand(options) started at time t.  answers: what the user replies
\* to confirmOverwrite, confirmInit and promptForMode
initCommand(gf, pf, md, options, answers, fault, t, dt) ==
  LET alreadyInitialized == isProjectInitialized(pf)
      prompted == Len(options.mode) = 0 /\ ~options.yes
      mode == IF Len(options.mode) > 0 THEN options.mode[1]
              ELSE IF options.yes THEN "guided"
              ELSE answers.mode
      initResult == initProject(pf, [mode |-> Str(mode)], WFault(fault), t)
      configResult == loadConfig(gf, initResult.file, fault = "loadConfig")
      buildResult == buildClaudeMd(md, configResult.data, fault = "build", t + dt)
  IN
  IF alreadyInitialized /\ ~options.force /\ options.yes
  THEN Exit(gf, pf, md, ExitCode.GENERAL_ERROR, "alreadyInitialized",
            <<"isProjectInitialized">>, FALSE)
  ELSE IF alreadyInitialized /\ ~options.force /\ ~answers.overwrite
  THEN Exit(gf, pf, md, ExitCode.SUCCESS, "cancelled", <<"isProjectInitialized">>, FALSE)
  ELSE IF prompted /\ ~answers.continue
  THEN Exit(gf, pf, md, ExitCode.SUCCESS, "cancelled", <<"isProjectInitialized">>, FALSE)
  ELSE IF ~initResult.result.success
  THEN Exit(gf, initResult.file, md, ExitCode.CONFIG_ERROR, "config",
            <<"isProjectInitialized", "initProject">>, FALSE)
  ELSE IF ~configResult.success
  THEN Exit(gf, initResult.file, md, ExitCode.CONFIG_ERROR, "config",
            <<"isProjectInitialized", "initProject", "loadConfig">>, FALSE)
  ELSE IF ~buildResult.result.success
  THEN Exit(gf, initResult.file, md, ExitCode.GENERAL_ERROR, "regeneration",
            <<"isProjectInitialized", "initProject", "loadConfig", "buildClaudeMd">>, FALSE)
  ELSE Exit(gf, initResult.file, buildResult.file, ExitCode.SUCCESS, "done",
            <<"isProjectInitialized", "initProject", "loadConfig", "buildClaudeMd">>, FALSE)

\* ModeSchema.safeParse(opts.mode), then initCommand: the action of `vibe init`
initAction(gf, pf, md, opts, answers, fault, t, dt) ==
  IF Len(opts.mode) > 0 /\ opts.mode[1] \notin ModeSchema
  THEN Exit(gf, pf, md, ExitCode.INVALID_ARGUMENT, "argument", <<>>, FALSE)
  ELSE initCommand(gf, pf, md, opts, answers, fault, t, dt)

getCurrentMode(gf, pf, ioFail) ==
  LET configResult == loadConfig(gf, pf, ioFail) IN
  IF ~isProjectInitialized(pf) THEN Err(ErrNotInitialized)
  ELSE IF ~configResult.success THEN configResult
  ELSE Ok(configResult.data["mode"].val)

\* modeCommand(newMode): newMode is <<>> when the argument is left out
modeCommand(gf, pf, md, newMode, fault, t, dt) ==
  LET modeResult == getCurrentMode(gf, pf, fault = "loadConfig")
      parseResult == parseMode(newMode[1])
      sw == switchMode(gf, pf, md, parseResult.data, fault, t, dt)
  IN
  IF ~isProjectInitialized(pf)
  THEN Exit(gf, pf, md, ExitCode.CONFIG_ERROR, "notInitialized",
            <<"isProjectInitialized">>, FALSE)
  ELSE IF Len(newMode) = 0 \/ newMode[1] = ""
  THEN IF ~modeResult.success
       THEN Exit(gf, pf, md, ExitCode.CONFIG_ERROR, "config",
                 <<"isProjectInitialized", "getCurrentMode">>, FALSE)
       ELSE Exit(gf, pf, md, ExitCode.SUCCESS, "done",
                 <<"isProjectInitialized", "getCurrentMode">>, FALSE)
  ELSE IF ~parseResult.success
  THEN Exit(gf, pf, md, ExitCode.INVALID_ARGUMENT, "argument",
            <<"isProjectInitialized", "parseMode">>, FALSE)
  ELSE IF ~sw.result.success
  THEN Exit(gf, sw.project, sw.claudeMd, ExitCode.CONFIG_ERROR, "switchMode",
            <<"isProjectInitialized", "parseMode", "switchMode">>, FALSE)
  ELSE Exit(gf, sw.project, sw.claudeMd, ExitCode.SUCCESS, "done",
            <<"isProjectInitialized", "parseMode", "switchMode">>, FALSE)

-----------------------------------------------------------------------------
\* Config command (src/unnamed/part_001)

VALID_KEYS ==
  [global |-> {"defaultMode", "editor", "claudeCodePath",
               "includeSecurityChecklist", "includeStandards"},
   project |-> {"mode", "projectName", "includeSecurityChecklist", "includeStandards"}]

\* a <value> argument: its text, whether it starts with "[", whether
\* JSON.parse accepts it, and its items: the parsed array when it starts
\* with "[", the trimmed pieces between its commas otherwise
CliValue(raw, bracket, jsonOk, items) ==
  [raw |-> raw, bracket |-> bracket, jsonOk |-> jsonOk, items |-> items]

parseConfigValue(key, value) ==
  IF key \in {"mode", "defaultMode"}
  THEN IF value.raw \in ModeSchema THEN Ok(Str(value.raw)) ELSE Throw("Invalid mode")
  ELSE IF key = "includeSecurityChecklist"
  THEN IF value.raw \in ChecklistTypeSchema THEN Ok(Str(value.raw))
       ELSE Throw("Invalid checklist")
  ELSE IF key = "includeStandards"
  THEN IF value.bracket /\ ~value.jsonOk THEN Throw("Invalid JSON array")
       ELSE IF \E i \in 1..Len(value.items) : value.items[i] \notin StandardTypeSchema
       THEN Throw("Invalid standard")
       ELSE Ok(Arr(value.items))
  ELSE Ok(Str(value.raw))

getConfigValue(gf, pf, md, key, isGlobal, ioFail) ==
  LET result == IF isGlobal THEN readGlobalConfig(gf, ioFail) ELSE loadConfig(gf, pf, ioFail)
      read == IF isGlobal THEN "readGlobalConfig" ELSE "loadConfig"
  IN
  IF ~result.success
  THEN Exit(gf, pf, md, ExitCode.CONFIG_ERROR, "config", <<read>>, FALSE)
  ELSE IF key \notin DOMAIN result.data
  THEN Exit(gf, pf, md, ExitCode.INVALID_ARGUMENT, "argument", <<read>>, FALSE)
  ELSE Exit(gf, pf, md, ExitCode.SUCCESS, "done", <<read>>, FALSE)

\* fault: "none", "read", "writeDenied" or "writePartial"; a schema.parse that
\* throws inside the write is an unhandled rejection of the command
setConfigValue(gf, pf, md, key, value, isGlobal, fault, t) ==
  LET validKeys == IF isGlobal THEN VALID_KEYS.global ELSE VALID_KEYS.project
      parsedValue == parseConfigValue(key, value)
      globalResult == readGlobalConfig(gf, fault = "read")
      gw == writeGlobalConfig(gf, Spread(globalResult.data, key, parsedValue.data),
                              WFault(fault), t)
      projectResult == readProjectConfig(pf, fault = "read")
      pw == writeProjectConfig(pf, Spread(OrEmpty(projectResult.data), key, parsedValue.data),
                               WFault(fault), t)
  IN
  IF key \notin validKeys
  THEN Exit(gf, pf, md, ExitCode.INVALID_ARGUMENT, "argument", <<>>, FALSE)
  ELSE IF ~parsedValue.success
  THEN Exit(gf, pf, md, ExitCode.INVALID_ARGUMENT, "argument", <<"parseConfigValue">>, FALSE)
  ELSE IF isGlobal
  THEN IF ~globalResult.success
       THEN Exit(gf, pf, md, ExitCode.CONFIG_ERROR, "config",
                 <<"parseConfigValue", "readGlobalConfig">>, FALSE)
       ELSE IF "thrown" \in DOMAIN gw.result
       THEN Exit(gf, pf, md, ExitCode.GENERAL_ERROR, "uncaught",
                 <<"parseConfigValue", "readGlobalConfig", "writeGlobalConfig">>, FALSE)
       ELSE IF ~gw.result.success
       THEN Exit(gw.file, pf, md, ExitCode.CONFIG_ERROR, "config",
                 <<"parseConfigValue", "readGlobalConfig", "writeGlobalConfig">>, FALSE)
       ELSE Exit(gw.file, pf, md, ExitCode.SUCCESS, "done",
                 <<"parseConfigValue", "readGlobalConfig", "writeGlobalConfig">>, FALSE)
  ELSE IF ~isProjectInitialized(pf)
  THEN Exit(gf, pf, md, ExitCode.CONFIG_ERROR, "notInitialized",
            <<"parseConfigValue", "isProjectInitialized">>, FALSE)
  ELSE IF ~projectResult.success
  THEN Exit(gf, pf, md, ExitCode.CONFIG_ERROR, "config",
            <<"parseConfigValue", "isProjectInitialized", "readProjectConfig">>, FALSE)
  ELSE IF "thrown" \in DOMAIN pw.result
  THEN Exit(gf, pf, md, ExitCode.GENERAL_ERROR, "uncaught",
            <<"parseConfigValue", "isProjectInitialized", "readProjectConfig",
              "writeProjectConfig">>, FALSE)
  ELSE IF ~pw.result.success
  THEN Exit(gf, pw.file, md, ExitCode.CONFIG_ERROR, "config",
            <<"parseConfigValue", "isProjectInitialized", "readProjectConfig",
              "writeProjectConfig">>, FALSE)
  ELSE Exit(gf, pw.file, md, ExitCode.SUCCESS, "done",
            <<"parseConfigValue", "isProjectInitialized", "readProjectConfig",
              "writeProjectConfig">>, FALSE)

-----------------------------------------------------------------------------
\* The file systems a command can start from.  Both config files are edited by
\* hand, so a run may find them absent, unparsable, valid, or holding values
\* and keys outside the schema.

ProjectObjects ==
  { [mode |-> Str("guided"), projectName |-> Str("foo"), template |-> Str("api"),
     customPrompts |-> Arr(<<"x">>), includeSecurityChecklist |-> Str("owasp"),
     includeStandards |-> Arr(<<"api", "typescript">>)],
    [projectName |-> Str("foo"), includeStandards |-> Arr(<<"api">>), notes |-> Str("keep")],
    [mode |-> Str("turbo")] }

GlobalObjects ==
  { [defaultMode |-> Str("expert"), editor |-> Str("vim"),
     includeSecurityChecklist |-> Str("full")] }

InitialProjectFiles == {Absent, Garbage(0)} \cup {JsonFile(o, 0) : o \in ProjectObjects}
InitialGlobalFiles == {Absent, Garbage(0)} \cup {JsonFile(o, 0) : o \in GlobalObjects}
\* no document yet, or one written by hand (in a project never initialized)
InitialDocs == {NoDoc, Doc(EmptyObj, 0)}

NoCall == [op |-> "none"]

Init ==
  /\ globalFile \in InitialGlobalFiles
  /\ projectFile \in InitialProjectFiles
  /\ claudeMd \in InitialDocs
  /\ claudeMd.exists => ~projectFile.exists
  /\ now = 0
  /\ last = NoCall
  /\ mIn = <<>>
  /\ mOut = <<>>
  /\ procs = <<>>
  /\ tree = <<>>

\* time passes between two commands
Tick ==
  /\ now < MaxClock
  /\ now' = now + 1
  /\ UNCHANGED <<globalFile, projectFile, claudeMd, last, mIn, mOut, procs, tree>>

\* one call of switchMode(root, newMode), as made by `vibe mode` and `vibe start --mode`
SwitchMode ==
  \E newMode \in ModeSchema, fault \in Faults :
  \E dt \in 0..(IF fault = "none" /\ now < MaxClock THEN 1 ELSE 0) :
    /\ LET r == switchMode(globalFile, projectFile, claudeMd, newMode, fault, now, dt) IN
       /\ projectFile' = r.project
       /\ claudeMd' = r.claudeMd
       /\ now' = now + dt
       /\ last' = [op |-> "switchMode", newMode |-> newMode, faulted |-> fault # "none", at |-> now,
                   pre |-> [project |-> projectFile, claudeMd |-> claudeMd],
                   result |-> r.result, steps |-> r.steps]
    /\ UNCHANGED <<globalFile, mIn, mOut, procs, tree>>

Next == SwitchMode \/ Tick

Spec == Init /\ [][Next]_vars

-----------------------------------------------------------------------------
\* Properties of switchMode (checked under Spec)

Switched == last.op = "switchMode"
SwitchedOk == Switched /\ last.result.success
Pre == last.pre
NewMode == Str(last.newMode)

\* a config file that exists but does not parse or does not validate
InvalidFile(f, keys) ==
  f.exists /\ (~f.json \/ \E k \in (DOMAIN f.obj) \cap keys : ~FieldOK(k, f.obj[k]))

PreValid ==
  /\ Pre.project.exists
  /\ ~InvalidFile(Pre.project, ProjectKeys)
  /\ ~InvalidFile(globalFile, GlobalKeys)

\* the defaultMode a global config file stands for
FileDefaultMode(gf) ==
  IF gf.exists /\ "defaultMode" \in DOMAIN gf.obj THEN gf.obj["defaultMode"] ELSE Str("guided")

\* the merged mode in effect before the call
PreMode ==
  IF "mode" \in DOMAIN Pre.project.obj THEN Pre.project.obj["mode"]
  ELSE FileDefaultMode(globalFile)

FilesUntouched == projectFile = Pre.project /\ claudeMd = Pre.claudeMd

\* C1 as stated: after a successful switchMode the persisted config is the
\* previous file content with only mode replaced, every other key of the file
\* kept, whatever the key.
C1_EveryKeyPreserved ==
  SwitchedOk =>
    /\ projectFile.json
    /\ DOMAIN projectFile.obj = (DOMAIN Pre.project.obj) \cup {"mode"}
    /\ projectFile.obj["mode"] = NewMode
    /\ \A k \in (DOMAIN Pre.project.obj) \ {"mode"} : projectFile.obj[k] = Pre.project.obj[k]

\* C1 amended: after a successful switchMode the persisted config is the
\* previous one restricted to the fields of ProjectConfigSchema with mode
\* replaced: every schema field keeps its value, keys outside the schema are
\* dropped, and no field other than mode is added.
C1_SchemaFieldsPreserved ==
  SwitchedOk =>
    /\ projectFile.json
    /\ DOMAIN projectFile.obj = ((DOMAIN Pre.project.obj) \cap ProjectKeys) \cup {"mode"}
    /\ projectFile.obj["mode"] = NewMode
    /\ \A k \in ((DOMAIN Pre.project.obj) \cap ProjectKeys) \ {"mode"} :
         projectFile.obj[k] = Pre.project.obj[k]

C1_Witness ==
  /\ SwitchedOk
  /\ ProjectKeys \subseteq DOMAIN Pre.project.obj
  /\ Pre.project.obj["mode"] # NewMode
  /\ projectFile.obj["customPrompts"] = Arr(<<"x">>)

\* C2: switchMode on a root without project config file fails with the
\* not-initialized error and writes nothing: the config file is still absent
\* and CLAUDE.md is unchanged.
C2_UninitializedNoWrite ==
  (Switched /\ ~Pre.project.exists) =>
    /\ last.result = Err(ErrNotInitialized)
    /\ ~projectFile.exists
    /\ FilesUntouched

C2_Witness ==
  /\ Switched
  /\ ~Pre.project.exists
  /\ Pre.claudeMd.exists
  /\ last.result = Err(ErrNotInitialized)

\* C3: a failing step short-circuits the rest: when the global or the project
\* config file is invalid, or the load or the raw read fails otherwise,
\* switchMode fails and neither file is written; when the write of the project
\* config fails, nothing is reloaded and CLAUDE.md is not regenerated.
C3_ShortCircuit ==
  Switched =>
    /\ (Pre.project.exists /\ ~PreValid) =>
         /\ ~last.result.success
         /\ last.result.error \in {ErrSyntax, ErrValidation, ErrIO}
         /\ FilesUntouched
    /\ (~last.result.success /\ Len(last.steps) <= 3) => FilesUntouched
    /\ (~last.result.success /\ last.steps[Len(last.steps)] = "writeProjectConfig") =>
         /\ Len(last.steps) = 4
         /\ claudeMd = Pre.claudeMd

C3_Witness ==
  /\ Switched
  /\ Pre.project.exists
  /\ InvalidFile(Pre.project, ProjectKeys)
  /\ Pre.project.json
  /\ last.result = Err(ErrValidation)

\* C4: when the write of the project config succeeded and the reload or the
\* regeneration failed, switchMode reports failure and the persisted config
\* keeps mode = newMode (no rollback); success is reported only when the
\* document was regenerated.
C4_NoRollback ==
  Switched =>
    /\ (~last.result.success /\ Len(last.steps) >= 5) =>
         /\ projectFile.json
         /\ projectFile.obj["mode"] = NewMode
         /\ projectFile.mtime = last.at
    /\ last.result.success =>
         /\ Len(last.steps) = 6
         /\ last.result.data.claudeMdPath = ClaudeMdPath

C4_Witness ==
  /\ Switched
  /\ ~last.result.success
  /\ Len(last.steps) = 6
  /\ PreMode # NewMode
  /\ projectFile.obj["mode"] = NewMode

\* global config files with every defaultMode
AnyGlobalFiles == {Absent} \cup {JsonFile([defaultMode |-> Str(m)], 0) : m \in ModeSchema}

\* C5: a successful switchMode returns previousMode = the merged mode before
\* the call and newMode = m, has written the project config with mode m and
\* regenerated the document from the merged config reloaded after the write;
\* a later loadConfig returns mode m whatever the global defaultMode.
C5_SuccessResult ==
  SwitchedOk =>
    /\ Str(last.result.data.previousMode) = PreMode
    /\ last.result.data.newMode = last.newMode
    /\ projectFile.json
    /\ projectFile.obj["mode"] = NewMode
    /\ projectFile.mtime = last.at
    /\ loadConfig(globalFile, projectFile, FALSE).success
    /\ claudeMd.exists
    /\ claudeMd.builtFrom = loadConfig(globalFile, projectFile, FALSE).data
    /\ claudeMd.mtime >= projectFile.mtime
    /\ \A gf \in AnyGlobalFiles : loadConfig(gf, projectFile, FALSE).data["mode"] = NewMode

C5_Witness ==
  /\ SwitchedOk
  /\ "mode" \notin DOMAIN Pre.project.obj
  /\ globalFile.exists
  /\ last.result.data.previousMode = "expert"
  /\ last.result.data.newMode = "learning"
  /\ claudeMd.builtFrom["mode"] = Str("learning")

\* C6: switchMode to the mode already in effect still succeeds (no I/O fault
\* given), returns previousMode = newMode = m, rewrites the project config and
\* regenerates the document.
C6_SameModeRegenerates ==
  (Switched /\ ~last.faulted /\ PreValid /\ PreMode = NewMode) =>
    /\ last.result.success
    /\ last.result.data.previousMode = last.newMode
    /\ last.result.data.newMode = last.newMode
    /\ Len(last.steps) = 6
    /\ projectFile.mtime = last.at
    /\ claudeMd.exists
    /\ claudeMd.mtime >= last.at

C6_Witness ==
  /\ SwitchedOk
  /\ last.result.data.previousMode = last.result.data.newMode
  /\ Pre.claudeMd.exists
  /\ Pre.claudeMd.builtFrom # EmptyObj
  /\ Pre.claudeMd.mtime < claudeMd.mtime
  /\ Pre.project.mtime < projectFile.mtime


-----------------------------------------------------------------------------
\* Direct calls of mergeConfigs and loadConfig on enumerated inputs

\* every object that gives some of the keys of opts one of the values opts lists
RECURSIVE ObjectsOver(_)
ObjectsOver(opts) ==
  IF DOMAIN opts = {} THEN {EmptyObj}
  ELSE LET k == CHOOSE x \in DOMAIN opts : TRUE
           rest == ObjectsOver([x \in (DOMAIN opts) \ {k} |-> opts[x]])
       IN rest \cup {[x \in (DOMAIN o) \cup {k} |-> IF x = k THEN v ELSE o[x]] :
                       o \in rest, v \in opts[k]}

\* GlobalConfig values: defaultMode is required, the other fields are optional
MergeGlobals ==
  { o \in ObjectsOver([defaultMode |-> {Str(m) : m \in ModeSchema},
                       editor |-> {Str("vim")},
                       claudeCodePath |-> {Str("/opt/claude")},
                       includeSecurityChecklist |-> {Str("full")},
                       includeStandards |-> {Arr(<<"api">>)}]) :
      "defaultMode" \in DOMAIN o }

\* ProjectConfig values or null; editor is not a ProjectConfig field, an
\* object that carries it anyway must not override the global one
MergeProjects ==
  {Null} \cup
  ObjectsOver([mode |-> {Str("learning"), Str("expert")},
               projectName |-> {Str("foo")},
               template |-> {Str("api")},
               customPrompts |-> {Arr(<<"x">>)},
               includeSecurityChecklist |-> {Str("owasp")},
               includeStandards |-> {Arr(<<>>), Arr(<<"api", "typescript">>)},
               editor |-> {Str("emacs")}])

InitMerge ==
  /\ globalFile \in InitialGlobalFiles
  /\ projectFile \in InitialProjectFiles
  /\ claudeMd = NoDoc
  /\ now = 0
  /\ last = NoCall
  /\ mOut = <<>>
  /\ \/ /\ globalFile = Absent
        /\ projectFile = Absent
        /\ mIn \in {<<g, p>> : g \in MergeGlobals, p \in MergeProjects}
     \/ mIn = <<>>
  /\ procs = <<>>
  /\ tree = <<>>

\* mergeConfigs(global, project) called on the arguments mIn
MergeCall ==
  /\ mIn # <<>>
  /\ mOut = <<>>
  /\ mOut' = <<mergeConfigs(mIn[1], mIn[2])>>
  /\ UNCHANGED <<globalFile, projectFile, claudeMd, now, last, mIn, procs, tree>>

\* loadConfig(root) called on the files
LoadCall ==
  /\ mIn = <<>>
  /\ last = NoCall
  /\ last' = [op |-> "loadConfig", result |-> loadConfig(globalFile, projectFile, FALSE)]
  /\ UNCHANGED <<globalFile, projectFile, claudeMd, now, mIn, mOut, procs, tree>>

NextMerge == MergeCall \/ LoadCall

SpecMerge == InitMerge /\ [][NextMerge]_vars

-----------------------------------------------------------------------------
\* Properties of mergeConfigs (checked under SpecMerge)

MergeDone == mOut # <<>>
G == mIn[1]
P == OrEmpty(mIn[2])
M == mOut[1]

\* C7: mergeConfigs(G, P).mode is P.mode when P is non-null and defines mode,
\* and G.defaultMode otherwise; loadConfig on a root without project config
\* returns the global defaultMode.
C7_ModePrecedence ==
  /\ MergeDone =>
       /\ "mode" \in DOMAIN M
       /\ M["mode"] = IF mIn[2] # Null /\ "mode" \in DOMAIN mIn[2]
                      THEN mIn[2]["mode"] ELSE G["defaultMode"]
  /\ (last.op = "loadConfig" /\ ~projectFile.exists /\ last.result.success) =>
       last.result.data["mode"] = FileDefaultMode(globalFile)

C7_Witness ==
  /\ MergeDone
  /\ mIn[2] # Null
  /\ "mode" \in DOMAIN mIn[2]
  /\ mIn[2]["mode"] # G["defaultMode"]
  /\ M["mode"] = mIn[2]["mode"]

\* the value of key k in the first object of objs that defines it, else dflt
FirstDefined(objs, k, dflt) ==
  IF \E i \in 1..Len(objs) : k \in DOMAIN objs[i]
  THEN objs[CHOOSE i \in 1..Len(objs) :
              k \in DOMAIN objs[i] /\ \A j \in 1..(i - 1) : k \notin DOMAIN objs[j]][k]
  ELSE dflt

\* key k of the merge comes from src and from nowhere else
TakenFrom(src, k) ==
  /\ k \in DOMAIN M <=> k \in DOMAIN src
  /\ k \in DOMAIN src => M[k] = src[k]

\* C8: field-level precedence of every field other than mode:
\* includeSecurityChecklist and includeStandards are project, else global, else
\* 'pre' / [typescript]; customPrompts is project, else []; projectName and
\* template come from the project only; editor and claudeCodePath from the
\* global config only.
C8_FieldPrecedence ==
  MergeDone =>
    /\ M["includeSecurityChecklist"] =
         FirstDefined(<<P, G>>, "includeSecurityChecklist", Str("pre"))
    /\ M["includeStandards"] =
         FirstDefined(<<P, G>>, "includeStandards", Arr(<<"typescript">>))
    /\ M["customPrompts"] = FirstDefined(<<P>>, "customPrompts", Arr(<<>>))
    /\ TakenFrom(P, "projectName")
    /\ TakenFrom(P, "template")
    /\ TakenFrom(G, "editor")
    /\ TakenFrom(G, "claudeCodePath")

C8_Witness ==
  /\ MergeDone
  /\ "editor" \in DOMAIN P /\ "editor" \in DOMAIN G /\ P["editor"] # G["editor"]
  /\ "includeSecurityChecklist" \notin DOMAIN P
  /\ "includeSecurityChecklist" \in DOMAIN G
  /\ "includeStandards" \in DOMAIN P /\ "includeStandards" \in DOMAIN G
  /\ "customPrompts" \notin DOMAIN P

\* C9: whatever optional fields the global and the project config leave
\* undefined, the merge defines every field MergedConfig declares required.
C9_RequiredDefined ==
  MergeDone =>
    {"mode", "customPrompts", "includeSecurityChecklist", "includeStandards"}
      \subseteq DOMAIN M

C9_Witness ==
  /\ MergeDone
  /\ mIn[2] = Null
  /\ DOMAIN G = {"defaultMode"}
  /\ DOMAIN M = {"mode", "customPrompts", "includeSecurityChecklist", "includeStandards"}

-----------------------------------------------------------------------------
\* Direct calls of the config store, of needsRegeneration and of parseMode,
\* on config files as a user may have left them

StoreGlobalObjects ==
  { EmptyObj,
    [editor |-> Str("vim")],
    [defaultMode |-> Str("expert"), includeStandards |-> Arr(<<"api">>)],
    [defaultMode |-> Str("learning"), editor |-> Str("vim"), claudeCodePath |-> Str("/bin/claude"),
     includeSecurityChecklist |-> Str("full"), includeStandards |-> Arr(<<>>)],
    [defaultMode |-> Str("turbo")],
    [includeSecurityChecklist |-> Str("strict")],
    [includeStandards |-> Arr(<<"typescript", "rust">>)],
    [editor |-> Arr(<<"vim">>)] }

StoreProjectObjects ==
  { EmptyObj,
    [mode |-> Str("learning"), projectName |-> Str("foo"), customPrompts |-> Arr(<<"x">>)],
    [mode |-> Str("Guided")],
    [customPrompts |-> Str("not-an-array")],
    [includeStandards |-> Str("api")] }

\* the objects handed to writeGlobalConfig and writeProjectConfig
WriteConfigs ==
  { [mode |-> Str("expert"), projectName |-> Str("foo")],
    [defaultMode |-> Str("learning"), editor |-> Str("vim")],
    [mode |-> Str("turbo"), defaultMode |-> Str("turbo")],
    [includeStandards |-> Arr(<<"rust">>)] }

\* the strings handed to parseMode
RawModes ==
  {"learning", "guided", "expert", "Learning", "LEARNING", "", " guided", "expert ", "turbo"}

InitStore ==
  /\ now \in 0..MaxClock
  /\ globalFile \in {Absent, Garbage(0)} \cup {JsonFile(o, 0) : o \in StoreGlobalObjects}
  /\ projectFile \in {Absent} \cup {Garbage(t) : t \in 0..now}
                       \cup {JsonFile(o, t) : o \in StoreProjectObjects, t \in 0..now}
  /\ claudeMd \in {NoDoc} \cup {Doc(EmptyObj, t) : t \in 0..now}
  /\ last = NoCall
  /\ mIn = <<>>
  /\ mOut = <<>>
  /\ procs = <<>>
  /\ tree = <<>>

ReadGlobalCall ==
  \E ioFail \in BOOLEAN :
    /\ last' = [op |-> "readGlobalConfig", ioFail |-> ioFail, pre |-> globalFile,
                result |-> readGlobalConfig(globalFile, ioFail)]
    /\ UNCHANGED <<globalFile, projectFile, claudeMd, now, mIn, mOut, procs, tree>>

ReadProjectCall ==
  \E ioFail \in BOOLEAN :
    /\ last' = [op |-> "readProjectConfig", ioFail |-> ioFail, pre |-> projectFile,
                result |-> readProjectConfig(projectFile, ioFail)]
    /\ UNCHANGED <<globalFile, projectFile, claudeMd, now, mIn, mOut, procs, tree>>

LoadConfigCall ==
  \E ioFail \in BOOLEAN :
    /\ last' = [op |-> "loadConfig", ioFail |-> ioFail,
                result |-> loadConfig(globalFile, projectFile, ioFail)]
    /\ UNCHANGED <<globalFile, projectFile, claudeMd, now, mIn, mOut, procs, tree>>

IsInitializedCall ==
  /\ last' = [op |-> "isProjectInitialized", result |-> isProjectInitialized(projectFile)]
  /\ UNCHANGED <<globalFile, projectFile, claudeMd, now, mIn, mOut, procs, tree>>

NeedsRegenerationCall ==
  \E statFail \in BOOLEAN :
    /\ last' = [op |-> "needsRegeneration", statFail |-> statFail,
                result |-> needsRegeneration(projectFile, claudeMd, statFail)]
    /\ UNCHANGED <<globalFile, projectFile, claudeMd, now, mIn, mOut, procs, tree>>

WriteGlobalCall ==
  \E config \in WriteConfigs, wfault \in {"none", "denied", "partial"} :
    LET w == writeGlobalConfig(globalFile, config, wfault, now) IN
    /\ globalFile' = w.file
    /\ last' = [op |-> "writeGlobalConfig", config |-> config, wfault |-> wfault,
                pre |-> globalFile, result |-> w.result]
    /\ UNCHANGED <<projectFile, claudeMd, now, mIn, mOut, procs, tree>>

WriteProjectCall ==
  \E config \in WriteConfigs, wfault \in {"none", "denied", "partial"} :
    LET w == writeProjectConfig(projectFile, config, wfault, now) IN
    /\ projectFile' = w.file
    /\ last' = [op |-> "writeProjectConfig", config |-> config, wfault |-> wfault,
                pre |-> projectFile, result |-> w.result]
    /\ UNCHANGED <<globalFile, claudeMd, now, mIn, mOut, procs, tree>>

ParseModeCall ==
  \E value \in RawModes :
    /\ last' = [op |-> "parseMode", value |-> value, result |-> parseMode(value)]
    /\ UNCHANGED <<globalFile, projectFile, claudeMd, now, mIn, mOut, procs, tree>>

NextStore ==
  \/ ReadGlobalCall
  \/ ReadProjectCall
  \/ LoadConfigCall
  \/ IsInitializedCall
  \/ NeedsRegenerationCall
  \/ WriteGlobalCall
  \/ WriteProjectCall
  \/ ParseModeCall
  \/ Tick

SpecStore == InitStore /\ [][NextStore]_vars

-----------------------------------------------------------------------------
\* Properties of the config store, needsRegeneration and parseMode
\* (checked under SpecStore)

Called(op) == last.op = op

\* both files can be stat'd
BothStat == ~last.statFail /\ projectFile.exists /\ claudeMd.exists

\* C11: needsRegeneration is true when the project config or the document
\* cannot be stat'd, true when the config's modification time is strictly
\* after the document's, and false otherwise (document newer, or equal times).
C11_NeedsRegeneration ==
  Called("needsRegeneration") =>
    /\ ~BothStat => last.result = TRUE
    /\ (BothStat /\ projectFile.mtime > claudeMd.mtime) => last.result = TRUE
    /\ (BothStat /\ projectFile.mtime < claudeMd.mtime) => last.result = FALSE
    /\ (BothStat /\ projectFile.mtime = claudeMd.mtime) => last.result = FALSE

C11_Witness ==
  /\ Called("needsRegeneration")
  /\ BothStat
  /\ projectFile.mtime = claudeMd.mtime
  /\ projectFile.mtime > 0
  /\ last.result = FALSE

DocumentedDefaults ==
  [defaultMode |-> Str("guided"),
   includeSecurityChecklist |-> Str("pre"),
   includeStandards |-> Arr(<<"typescript">>)]

\* C12: readGlobalConfig succeeds with exactly the documented defaults when
\* the global file is absent, and creates no file; on a valid file it
\* succeeds with the fields of the file kept and each omitted defaulted field
\* set to its documented default.
C12_GlobalDefaults ==
  Called("readGlobalConfig") =>
    /\ ~last.pre.exists =>
         /\ last.result = Ok(DocumentedDefaults)
         /\ ~globalFile.exists
    /\ (last.pre.exists /\ ~InvalidFile(last.pre, GlobalKeys) /\ ~last.ioFail) =>
         /\ last.result.success
         /\ DOMAIN last.result.data =
              ((DOMAIN last.pre.obj) \cap GlobalKeys) \cup DOMAIN DocumentedDefaults
         /\ \A k \in (DOMAIN last.pre.obj) \cap GlobalKeys :
              last.result.data[k] = last.pre.obj[k]
         /\ \A k \in (DOMAIN DocumentedDefaults) \ DOMAIN last.pre.obj :
              last.result.data[k] = DocumentedDefaults[k]

C12_Witness ==
  /\ Called("readGlobalConfig")
  /\ last.pre = JsonFile([editor |-> Str("vim")], 0)
  /\ last.result.success
  /\ last.result.data["editor"] = Str("vim")
  /\ last.result.data["includeStandards"] = Arr(<<"typescript">>)

\* every field of a returned config holds a value of its schema type
AllFieldsValid(data) == \A k \in DOMAIN data : FieldOK(k, data[k])

\* C13: a global or project config file that exists but is not JSON, or holds
\* a value outside the schema, makes readGlobalConfig, readProjectConfig and
\* loadConfig fail with a message; no success result carries such a value.
C13_InvalidRejected ==
  /\ (Called("readGlobalConfig") /\ InvalidFile(globalFile, GlobalKeys)) =>
       /\ ~last.result.success
       /\ last.result.error \in {ErrSyntax, ErrValidation, ErrIO}
  /\ (Called("readProjectConfig") /\ InvalidFile(projectFile, ProjectKeys)) =>
       /\ ~last.result.success
       /\ last.result.error \in {ErrSyntax, ErrValidation, ErrIO}
  /\ (Called("loadConfig") /\ (InvalidFile(globalFile, GlobalKeys)
                                \/ InvalidFile(projectFile, ProjectKeys))) =>
       /\ ~last.result.success
       /\ last.result.error \in {ErrSyntax, ErrValidation, ErrIO}
  /\ (last.op \in {"readGlobalConfig", "readProjectConfig", "loadConfig"}
        /\ last.result.success /\ last.result.data # Null) =>
       AllFieldsValid(last.result.data)

C13_Witness ==
  /\ Called("loadConfig")
  /\ ~last.ioFail
  /\ ~InvalidFile(globalFile, GlobalKeys)
  /\ projectFile.json
  /\ "mode" \in DOMAIN projectFile.obj
  /\ projectFile.obj["mode"] = Str("Guided")
  /\ last.result = Err(ErrValidation)

\* C14: readProjectConfig succeeds with null exactly when the project config
\* file is absent, and with a non-null config when the file exists and is
\* valid: null is returned if and only if isProjectInitialized is false.
C14_NullIffAbsent ==
  Called("readProjectConfig") =>
    /\ ~projectFile.exists => last.result = Ok(Null)
    /\ projectFile.exists => last.result # Ok(Null)
    /\ (projectFile.exists /\ ~InvalidFile(projectFile, ProjectKeys) /\ ~last.ioFail) =>
         /\ last.result.success
         /\ last.result.data # Null
    /\ (last.result = Ok(Null)) <=> ~isProjectInitialized(projectFile)

C14_Witness ==
  /\ Called("readProjectConfig")
  /\ projectFile = JsonFile(EmptyObj, 0)
  /\ last.result = Ok(EmptyObj)

\* the config handed to the last write violates the schema it is written under
WroteInvalid ==
  \/ /\ Called("writeGlobalConfig")
     /\ \E k \in (DOMAIN last.config) \cap GlobalKeys : ~FieldOK(k, last.config[k])
  \/ /\ Called("writeProjectConfig")
     /\ \E k \in (DOMAIN last.config) \cap ProjectKeys : ~FieldOK(k, last.config[k])

\* C15: called with a config that violates the schema, writeGlobalConfig and
\* writeProjectConfig leave the target file as it was and return a failure
\* Result; they do not throw.
C15_ViolationIsFailureResult ==
  WroteInvalid =>
    /\ Called("writeGlobalConfig") => globalFile = last.pre
    /\ Called("writeProjectConfig") => projectFile = last.pre
    /\ ~last.result.success
    /\ "thrown" \notin DOMAIN last.result

\* C16: isProjectInitialized is true exactly when the project config file
\* exists, valid or not; on a present but invalid file it is true while
\* loadConfig and switchMode fail.
C16_InitializedIffExists ==
  Called("isProjectInitialized") =>
    /\ last.result <=> projectFile.exists
    /\ InvalidFile(projectFile, ProjectKeys) =>
         /\ last.result
         /\ ~loadConfig(globalFile, projectFile, FALSE).success
         /\ \A m \in ModeSchema :
              ~switchMode(globalFile, projectFile, claudeMd, m, "none", now, 0).result.success

C16_Witness ==
  /\ Called("isProjectInitialized")
  /\ InvalidFile(projectFile, ProjectKeys)
  /\ projectFile.json
  /\ ~InvalidFile(globalFile, GlobalKeys)
  /\ last.result

\* C17: parseMode(raw) succeeds, returning raw, exactly when raw is one of
\* 'learning', 'guided', 'expert' as written; for every other string it fails
\* with a message that lists the three valid modes.
C17_ParseModeExact ==
  Called("parseMode") =>
    /\ last.result.success <=> last.value \in {"learning", "guided", "expert"}
    /\ last.result.success => last.result.data = last.value
    /\ ~last.result.success =>
         last.result.error.validModes = <<"learning", "guided", "expert">>

C17_Witness ==
  /\ Called("parseMode")
  /\ last.value = "Learning"
  /\ ~last.result.success

-----------------------------------------------------------------------------
\* Sequences of vibe commands run one after the other in a project.  Each
\* command is a process of its own and starts later than the previous one
\* ended; the two files a command writes may carry the same timestamp.

\* the option and argument values tried
InitModes == {<<>>, <<"learning">>, <<"Expert">>}
ModeArgs == {<<>>, <<"">>, <<"guided">>, <<"Guided">>}
StartModes == {<<>>, <<"expert">>, <<"turbo">>}
GetKeys == {"mode", "editor", "colour"}
SetArgs ==
  { <<"mode", CliValue("expert", FALSE, FALSE, <<"expert">>)>>,
    <<"mode", CliValue(" guided", FALSE, FALSE, <<"guided">>)>>,
    <<"defaultMode", CliValue("expert", FALSE, FALSE, <<"expert">>)>>,
    <<"colour", CliValue("vim", FALSE, FALSE, <<"vim">>)>>,
    <<"includeSecurityChecklist", CliValue("strict", FALSE, FALSE, <<"strict">>)>>,
    <<"includeStandards", CliValue("api, typescript", FALSE, FALSE, <<"api", "typescript">>)>>,
    <<"includeStandards", CliValue("[api", TRUE, FALSE, <<>>)>> }
ChildExitCodes == {0, 1}

\* the argument is malformed: a mode, config key or config value the CLI rejects
BadMode(m) == Len(m) > 0 /\ m[1] \notin ModeSchema
BadSet(key, value, isGlobal) ==
  \/ key \notin (IF isGlobal THEN VALID_KEYS.global ELSE VALID_KEYS.project)
  \/ ~parseConfigValue(key, value).success

\* the project config `vibe init --yes` writes
InitializedProject == JsonFile(initProject(Absent, EmptyObj, "none", 0).result.data, 0)

\* a project config written by hand that leaves the mode to the global config
\* and carries a key of the user's own
HandWrittenProject ==
  JsonFile([projectName |-> Str("foo"), includeSecurityChecklist |-> Str("owasp"),
            includeStandards |-> Arr(<<"api">>), notes |-> Str("keep")], 0)

\* a project never initialized, or a project config as `vibe init --yes` or
\* the user wrote it at time 0 with the document an earlier start built from it
InitCli ==
  /\ globalFile \in InitialGlobalFiles
  /\ \/ /\ projectFile = Absent
        /\ claudeMd \in InitialDocs
     \/ /\ projectFile \in {InitializedProject, HandWrittenProject}
        /\ loadConfig(globalFile, projectFile, FALSE).success
        /\ claudeMd = Doc(loadConfig(globalFile, projectFile, FALSE).data, 0)
  /\ now = 0
  /\ last = NoCall
  /\ mIn = <<>>
  /\ mOut = <<>>
  /\ procs = <<>>
  /\ tree = <<>>

\* the state a command leaves; opts: the options of a start, the arguments
\* of a config set, the flags of an init with the answer to confirmOverwrite; wfault: the write fault given to the command, crashed
\* when it struck a write and left the file truncated
Ran(op, badArg, opts, r, wfault, t) ==
  /\ globalFile' = r.global
  /\ projectFile' = r.project
  /\ claudeMd' = r.claudeMd
  /\ now' = t
  /\ last' = [op |-> op, badArg |-> badArg, opts |-> opts,
              initialized |-> projectFile.exists,
              crashed |-> wfault = "writePartial"
                            /\ (r.project # projectFile \/ r.global # globalFile),
              exit |-> r.exit, cause |-> r.cause, steps |-> r.steps, launched |-> r.launched]
  /\ UNCHANGED <<mIn, mOut, procs, tree>>

InitCommand ==
  /\ now < MaxTime
  /\ \E mode \in InitModes, force \in BOOLEAN, yes \in BOOLEAN,
        fault \in {"none", "writeDenied", "writePartial", "loadConfig", "build"} :
     \E overwrite \in (IF projectFile.exists /\ ~force /\ ~yes THEN BOOLEAN ELSE {TRUE}),
        continue \in (IF Len(mode) = 0 /\ ~yes THEN BOOLEAN ELSE {TRUE}) :
     \E dt \in 0..(IF fault = "none" /\ now + 1 < MaxTime THEN 1 ELSE 0) :
       LET opts == [mode |-> mode, force |-> force, yes |-> yes]
           answers == [overwrite |-> overwrite, continue |-> continue, mode |-> "expert"]
           asked == projectFile.exists /\ ~force /\ ~yes /\ ~BadMode(mode)
       IN Ran("init", BadMode(mode),
              [force |-> force, yes |-> yes,
               overwrite |-> IF asked THEN <<overwrite>> ELSE <<>>],
              initAction(globalFile, projectFile, claudeMd, opts, answers, fault, now + 1, dt),
              fault, now + 1 + dt)

ModeCommand ==
  /\ now < MaxTime
  /\ \E newMode \in ModeArgs, fault \in Faults :
     \E dt \in 0..(IF fault = "none" /\ now + 1 < MaxTime THEN 1 ELSE 0) :
       Ran("mode", BadMode(newMode) /\ newMode[1] # "", <<>>,
           modeCommand(globalFile, projectFile, claudeMd, newMode, fault, now + 1, dt),
           fault, now + 1 + dt)

ConfigGetCommand ==
  /\ now < MaxTime
  /\ \E key \in GetKeys, isGlobal \in BOOLEAN, ioFail \in BOOLEAN :
       Ran("config get", key = "colour", <<>>,
           getConfigValue(globalFile, projectFile, claudeMd, key, isGlobal, ioFail),
           "none", now + 1)

ConfigSetCommand ==
  /\ now < MaxTime
  /\ \E arg \in SetArgs, isGlobal \in BOOLEAN,
        fault \in {"none", "read", "writeDenied", "writePartial"} :
       Ran("config set", BadSet(arg[1], arg[2], isGlobal),
           [key |-> arg[1], value |-> arg[2], isGlobal |-> isGlobal],
           setConfigValue(globalFile, projectFile, claudeMd, arg[1], arg[2], isGlobal,
                          fault, now + 1),
           fault, now + 1)

StartCommand ==
  /\ now < MaxTime
  /\ \E mode \in StartModes, regenerate \in BOOLEAN :
     \E sfault \in (IF Len(mode) > 0 THEN Faults ELSE {"none"}) :
     \E fault \in (IF sfault = "none" THEN {"none", "loadConfig", "stat", "build", "launch"}
                   ELSE {"none"}) :
     \E child \in (IF sfault = "none" /\ fault \in {"none", "stat"} THEN ChildExitCodes ELSE {0}) :
     \E dt \in 0..(IF fault = "none" /\ sfault = "none" /\ now + 1 < MaxTime THEN 1 ELSE 0) :
       LET opts == [mode |-> mode, regenerate |-> regenerate] IN
       Ran("start", BadMode(mode), opts,
           startAction(globalFile, projectFile, claudeMd, opts, sfault, fault, child,
                       now + 1, dt),
           sfault, now + 1 + dt)

NextCli ==
  \/ InitCommand
  \/ ModeCommand
  \/ ConfigGetCommand
  \/ ConfigSetCommand
  \/ StartCommand

SpecCli == InitCli /\ [][NextCli]_vars

-----------------------------------------------------------------------------
\* Properties of the commands (checked under SpecCli)

Commands == {"init", "mode", "config get", "config set", "start"}

\* C18: a command that fails because of a config read or write failure, a
\* project that is not initialized or a failed regeneration of the document
\* exits with 3; a malformed argument (mode, config key, config value) exits
\* with 2 whether or not the project is initialized; none of them exits with
\* 0 or 1.
C18_ExitCodes ==
  last.op \in Commands =>
    /\ last.badArg => last.exit = 2
    /\ (~last.badArg
          /\ last.cause \in {"config", "notInitialized", "switchMode", "regeneration"}) =>
         last.exit = 3
    /\ last.cause \in {"argument", "config", "notInitialized", "switchMode", "regeneration"} =>
         last.exit \notin {0, 1}

\* C19: at the moment start launches Claude Code, CLAUDE.md is the document
\* built from the merged configuration (global + project) then in effect.
C19_DocumentCurrentAtLaunch ==
  (Called("start") /\ last.launched) =>
    /\ claudeMd.exists
    /\ loadConfig(globalFile, projectFile, FALSE).success
    /\ claudeMd.builtFrom = loadConfig(globalFile, projectFile, FALSE).data

\* the steps of a start that reaches the launch, in order
LaunchOrders(modeGiven, regenerate) ==
  { <<"isProjectInitialized">>
      \o (IF modeGiven THEN <<"switchMode">> ELSE <<>>)
      \o <<"loadConfig">> \o check \o build \o <<"runClaudeCode">> :
    check \in (IF regenerate THEN {<<>>} ELSE {<<"needsRegeneration">>}),
    build \in (IF regenerate THEN {<<"buildClaudeMd">>} ELSE {<<>>, <<"buildClaudeMd">>}) }

\* C20: start calls runClaudeCode only after, in this order, the project was
\* found initialized, the switchMode of --mode succeeded, loadConfig
\* succeeded and the regeneration, when requested or needed, succeeded; when
\* one of them fails the command exits non-zero without launching.
C20_LaunchAfterSuccess ==
  Called("start") =>
    /\ last.launched =>
         /\ last.initialized
         /\ ~last.badArg
         /\ [i \in 1..Len(last.steps) |-> last.steps[i].step]
              \in LaunchOrders(Len(last.opts.mode) > 0, last.opts.regenerate)
         /\ \A i \in 1..(Len(last.steps) - 1) : last.steps[i].ok
         /\ Len(last.opts.mode) > 0 =>
              /\ projectFile.json
              /\ projectFile.obj["mode"] = Str(last.opts.mode[1])
         /\ ~InvalidFile(globalFile, GlobalKeys)
         /\ ~InvalidFile(projectFile, ProjectKeys)
    /\ (\E i \in 1..Len(last.steps) :
          ~last.steps[i].ok /\ last.steps[i].step # "runClaudeCode") =>
         /\ ~last.launched
         /\ last.exit # 0
    /\ ~last.launched => last.exit # 0

C20_Witness ==
  /\ Called("start")
  /\ last.launched
  /\ last.exit = 0
  /\ last.opts.mode = <<"expert">>
  /\ last.opts.regenerate
  /\ Len(last.steps) = 5
  /\ last.steps[4] = [step |-> "buildClaudeMd", ok |-> TRUE]
  /\ last.initialized

\* the document is missing or older than the project config
Stale == ~projectFile.exists \/ ~claudeMd.exists \/ projectFile.mtime > claudeMd.mtime

SetProjectOk == Called("config set") /\ ~last.opts.isGlobal /\ last.exit = 0

\* the last command wrote the project config and then the document
InitOk == Called("init") /\ last.cause = "done" /\ Len(last.steps) = 4
SwitchOk == Called("mode") /\ last.cause = "done" /\ Len(last.steps) = 3

SetProjectStep == last'.op = "config set" /\ ~last'.opts.isGlobal

SetBad == BadSet(last'.opts.key, last'.opts.value, FALSE)

\* the value a config set stores for its <value> argument
SetParsed ==
  IF last'.opts.key = "includeStandards" THEN Arr(last'.opts.value.items)
  ELSE Str(last'.opts.value.raw)

NothingWritten == UNCHANGED <<globalFile, projectFile, claudeMd>>

\* C22 as stated: a project-level config set on an uninitialized project
\* writes nothing and exits with 3; with a bad key or value it writes nothing
\* and exits with 2; in every other case the project config afterwards is the
\* previous one with only the field k replaced by the parsed value.
C22_SetReplacesOnlyKey ==
  [][SetProjectStep =>
       /\ ~projectFile.exists => (NothingWritten /\ last'.exit = 3)
       /\ SetBad => (NothingWritten /\ last'.exit = 2)
       /\ (projectFile.exists /\ ~SetBad) =>
            /\ projectFile'.json
            /\ DOMAIN projectFile'.obj = (DOMAIN projectFile.obj) \cup {last'.opts.key}
            /\ projectFile'.obj[last'.opts.key] = SetParsed
            /\ \A k \in (DOMAIN projectFile.obj) \ {last'.opts.key} :
                 projectFile'.obj[k] = projectFile.obj[k]]_vars

\* C22 amended: a bad key or value writes nothing and exits with 2, whether
\* or not the project is initialized; a good key and value on an
\* uninitialized project writes nothing and exits with 3; on an initialized
\* project the set exits with 0 or 3: when it exits with 0 the project config
\* afterwards is the previous one restricted to the schema fields with only k
\* replaced by the parsed value; when it exits with 3 the global config and
\* the document are untouched and the project config is unchanged, or
\* truncated by a write that failed half way.
C22_SetReplacesOnlySchemaKey ==
  [][SetProjectStep =>
       /\ SetBad => (NothingWritten /\ last'.exit = 2)
       /\ (~SetBad /\ ~projectFile.exists) => (NothingWritten /\ last'.exit = 3)
       /\ (~SetBad /\ projectFile.exists) =>
            /\ last'.exit \in {0, 3}
            /\ UNCHANGED <<globalFile, claudeMd>>
            /\ last'.exit = 0 =>
                 /\ projectFile'.json
                 /\ DOMAIN projectFile'.obj =
                      ((DOMAIN projectFile.obj) \cap ProjectKeys) \cup {last'.opts.key}
                 /\ projectFile'.obj[last'.opts.key] = SetParsed
                 /\ \A k \in ((DOMAIN projectFile.obj) \cap ProjectKeys) \ {last'.opts.key} :
                      projectFile'.obj[k] = projectFile.obj[k]
            /\ last'.exit = 3 =>
                 \/ projectFile' = projectFile
                 \/ last'.crashed /\ ~projectFile'.json]_vars

C22_Witness ==
  /\ SetProjectOk
  /\ last.opts.key = "includeStandards"
  /\ DOMAIN projectFile.obj = {"projectName", "includeSecurityChecklist", "includeStandards"}
  /\ projectFile.obj["includeStandards"] = Arr(<<"api", "typescript">>)
  /\ projectFile.obj["includeSecurityChecklist"] = Str("owasp")
  /\ projectFile.mtime > 0

\* the step is an init in a project that is already initialized
ReinitStep == last'.op = "init" /\ projectFile.exists

\* the project config an init writes: the chosen mode and the defaults
FreshConfigs ==
  {[mode |-> Str(m), customPrompts |-> Arr(<<>>), includeSecurityChecklist |-> Str("pre"),
    includeStandards |-> Arr(<<"typescript">>)] : m \in ModeSchema}

\* C23: init in an initialized project writes neither the project config nor
\* CLAUDE.md unless --force is given or the user confirms the overwrite: with
\* --yes and no --force it exits non-zero, when the user declines it exits
\* with 0; a project config it does write holds the chosen mode and the
\* defaults only, no field of the old config.
C23_NoOverwriteWithoutConsent ==
  [][ReinitStep =>
       /\ (~last'.opts.force /\ last'.opts.overwrite # <<TRUE>>) => NothingWritten
       /\ (~last'.opts.force /\ last'.opts.yes) => last'.exit # 0
       /\ last'.opts.overwrite = <<FALSE>> => last'.exit = 0
       /\ (projectFile' # projectFile /\ projectFile'.json) =>
            projectFile'.obj \in FreshConfigs]_vars

C23_Witness ==
  /\ Called("init")
  /\ last.initialized
  /\ last.opts.overwrite = <<TRUE>>
  /\ last.exit = 0
  /\ projectFile.obj \in FreshConfigs
  /\ projectFile.obj["mode"] = Str("expert")
  /\ projectFile.mtime > 0
  /\ claudeMd.builtFrom["includeSecurityChecklist"] = Str("pre")

\* a config file as the tool must leave it: JSON that validates
ValidFile(f, keys) == f.exists /\ f.json /\ ~InvalidFile(f, keys)

\* C25: a config file that init, mode, config set (or the switchMode of a
\* start) writes is JSON that validates against its schema, unless the write
\* itself failed half way: the tool persists no config that a later read
\* rejects.
C25_PersistedConfigsValid ==
  [][/\ (projectFile' # projectFile /\ ~last'.crashed) =>
          /\ ValidFile(projectFile', ProjectKeys)
          /\ readProjectConfig(projectFile', FALSE).success
     /\ (globalFile' # globalFile /\ ~last'.crashed) =>
          /\ ValidFile(globalFile', GlobalKeys)
          /\ readGlobalConfig(globalFile', FALSE).success]_vars

C25_Witness ==
  /\ Called("config set")
  /\ last.opts.isGlobal
  /\ last.exit = 0
  /\ globalFile.mtime > 0
  /\ globalFile.obj = [defaultMode |-> Str("expert"), includeSecurityChecklist |-> Str("pre"),
                       includeStandards |-> Arr(<<"typescript">>)]
  /\ ValidFile(projectFile, ProjectKeys)
  /\ projectFile.mtime > 0
  /\ loadConfig(globalFile, projectFile, FALSE).success

\* the fields initProject always writes
InitFields == {"mode", "customPrompts", "includeSecurityChecklist", "includeStandards"}

\* the merged fields mergeConfigs takes from the project before the global config
ProjectFirstFields == {"mode", "includeSecurityChecklist", "includeStandards"}

\* a project config that parses and defines the fields initProject writes
Complete(f) == f.exists /\ f.json /\ InitFields \subseteq DOMAIN f.obj

\* global configs that differ in defaultMode, includeSecurityChecklist or
\* includeStandards only
GlobalVariants ==
  { JsonFile(o, 0) :
      o \in { [editor |-> Str("vim")],
              [editor |-> Str("vim"), defaultMode |-> Str("expert")],
              [editor |-> Str("vim"), defaultMode |-> Str("learning"),
               includeSecurityChecklist |-> Str("full")],
              [editor |-> Str("vim"), includeSecurityChecklist |-> Str("none"),
               includeStandards |-> Arr(<<"api">>)] } }

\* C30: a successful init leaves a project config that defines mode,
\* customPrompts, includeSecurityChecklist and includeStandards; no command
\* that leaves a parseable project config removes one of them; and for such a
\* config loadConfig succeeds under every valid global config with the same
\* merged mode, includeSecurityChecklist and includeStandards.
C30_InitFieldsShadowGlobal ==
  /\ [](/\ InitOk => Complete(projectFile)
        /\ Complete(projectFile) =>
             \A g1 \in GlobalVariants \cup {globalFile}, g2 \in GlobalVariants :
               /\ loadConfig(g2, projectFile, FALSE).success
               /\ loadConfig(g1, projectFile, FALSE).success =>
                    \A f \in ProjectFirstFields :
                      Get(loadConfig(g1, projectFile, FALSE).data, f) =
                        Get(loadConfig(g2, projectFile, FALSE).data, f))
  /\ [][(Complete(projectFile) /\ projectFile'.exists /\ projectFile'.json) =>
          Complete(projectFile')]_vars

\* an initialized project whose mode was switched or whose project config was
\* set since, under a global config with another default mode
C30_Witness ==
  /\ SwitchOk \/ SetProjectOk
  /\ Complete(projectFile)
  /\ projectFile.mtime > 0
  /\ loadConfig(globalFile, projectFile, FALSE).success
  /\ "defaultMode" \in DOMAIN globalFile.obj
  /\ globalFile.obj.defaultMode # projectFile.obj.mode
  /\ "includeSecurityChecklist" \in DOMAIN globalFile.obj
  /\ globalFile.obj.includeSecurityChecklist # projectFile.obj.includeSecurityChecklist

-----------------------------------------------------------------------------
\* Two invocations of the tool in the same project at the same time: a
\* `vibe mode <m>` (switchMode) and a project-level `vibe config set <k> <v>`.
\* Each is a process of its own; a step is what runs up to the next awaited
\* file-system call.  writeFile opens the file with truncation and fills it
\* afterwards, so a reader in between finds an empty file.

\* the key and value of the racing config set, as parseConfigValue returns it
RaceSetArgs ==
  { <<"projectName", Str("bar")>>,
    <<"includeSecurityChecklist", Str("full")>>,
    <<"includeStandards", Arr(<<"api", "typescript">>)>> }

\* a process that has not started: what it was invoked with
Invoked(arg) ==
  [pc |-> "isProjectInitialized", arg |-> arg, data |-> EmptyObj, result |-> <<>>,
   sawOther |-> <<>>]

InitRace ==
  /\ globalFile \in {Absent} \cup {JsonFile(o, 0) : o \in GlobalObjects}
  /\ projectFile \in {InitializedProject, HandWrittenProject}
  /\ claudeMd = Doc(loadConfig(globalFile, projectFile, FALSE).data, 0)
  /\ now = 0
  /\ last = NoCall
  /\ mIn = <<>>
  /\ mOut = <<>>
  /\ procs \in [mode : {Invoked(m) : m \in ModeSchema},
                set : {Invoked(a) : a \in RaceSetArgs}]
  /\ tree = <<>>

\* process p moves to pc holding data; its first step notes where the other stands
Moved(p, other, pc, data, result) ==
  [procs EXCEPT ![p] = [pc |-> pc, arg |-> procs[p].arg, data |-> data, result |-> result,
                        sawOther |-> IF procs[p].pc = "isProjectInitialized"
                                     THEN <<procs[other].pc>> ELSE procs[p].sawOther]]

Ended(p, other, result) == Moved(p, other, "done", EmptyObj, <<result>>)

\* the next step of the process running switchMode(root, newMode)
ModeProcess ==
  LET self == procs.mode
      configResult == loadConfig(globalFile, projectFile, FALSE)
      projectConfigResult == readProjectConfig(projectFile, FALSE)
      buildResult == buildClaudeMd(claudeMd, configResult.data, FALSE, now)
  IN
  /\ "mode" \in DOMAIN procs
  /\ UNCHANGED <<globalFile, now, last, mIn, mOut, tree>>
  /\ \/ /\ self.pc = "isProjectInitialized"
        /\ procs' = IF isProjectInitialized(projectFile)
                     THEN Moved("mode", "set", "loadConfig", EmptyObj, <<>>)
                     ELSE Ended("mode", "set", Err(ErrNotInitialized))
        /\ UNCHANGED <<projectFile, claudeMd>>
     \/ /\ self.pc = "loadConfig"
        /\ procs' = IF configResult.success
                     THEN Moved("mode", "set", "readProjectConfig", EmptyObj, <<>>)
                     ELSE Ended("mode", "set", configResult)
        /\ UNCHANGED <<projectFile, claudeMd>>
     \/ /\ self.pc = "readProjectConfig"
        /\ procs' = IF projectConfigResult.success
                     THEN Moved("mode", "set", "writeProjectConfig",
                                Spread(OrEmpty(projectConfigResult.data), "mode", Str(self.arg)),
                                <<>>)
                     ELSE Ended("mode", "set", projectConfigResult)
        /\ UNCHANGED <<projectFile, claudeMd>>
     \/ /\ self.pc = "writeProjectConfig"
        /\ projectFile' = Garbage(now)
        /\ procs' = Moved("mode", "set", "writeFile", self.data, <<>>)
        /\ UNCHANGED claudeMd
     \/ /\ self.pc = "writeFile"
        /\ projectFile' = writeProjectConfig(projectFile, self.data, "none", now).file
        /\ procs' = Moved("mode", "set", "reload", EmptyObj, <<>>)
        /\ UNCHANGED claudeMd
     \/ /\ self.pc = "reload"
        /\ procs' = IF configResult.success
                     THEN Moved("mode", "set", "buildClaudeMd", configResult.data, <<>>)
                     ELSE Ended("mode", "set", configResult)
        /\ UNCHANGED <<projectFile, claudeMd>>
     \/ /\ self.pc = "buildClaudeMd"
        /\ claudeMd' = buildClaudeMd(claudeMd, self.data, FALSE, now).file
        /\ procs' = Ended("mode", "set", Ok(self.arg))
        /\ UNCHANGED projectFile

\* the next step of the process running setConfigValue(key, value, false)
SetProcess ==
  LET self == procs.set
      result == readProjectConfig(projectFile, FALSE)
  IN
  /\ "set" \in DOMAIN procs
  /\ UNCHANGED <<globalFile, claudeMd, now, last, mIn, mOut, tree>>
  /\ \/ /\ self.pc = "isProjectInitialized"
        /\ procs' = IF isProjectInitialized(projectFile)
                     THEN Moved("set", "mode", "readProjectConfig", EmptyObj, <<>>)
                     ELSE Ended("set", "mode", Err(ErrNotInitialized))
        /\ UNCHANGED projectFile
     \/ /\ self.pc = "readProjectConfig"
        /\ procs' = IF result.success
                     THEN Moved("set", "mode", "writeProjectConfig",
                                Spread(OrEmpty(result.data), self.arg[1], self.arg[2]), <<>>)
                     ELSE Ended("set", "mode", result)
        /\ UNCHANGED projectFile
     \/ /\ self.pc = "writeProjectConfig"
        /\ projectFile' = Garbage(now)
        /\ procs' = Moved("set", "mode", "writeFile", self.data, <<>>)
     \/ /\ self.pc = "writeFile"
        /\ projectFile' = writeProjectConfig(projectFile, self.data, "none", now).file
        /\ procs' = Ended("set", "mode", Ok("void"))

NextRace == ModeProcess \/ SetProcess

SpecRace == InitRace /\ [][NextRace]_vars

-----------------------------------------------------------------------------
\* Properties of concurrent invocations (checked under SpecRace)

BothDone == procs.mode.pc = "done" /\ procs.set.pc = "done"
BothOk == BothDone /\ procs.mode.result[1].success /\ procs.set.result[1].success

\* one of the two commands started when the other had ended
Sequential == procs.mode.sawOther = <<"done">> \/ procs.set.sawOther = <<"done">>

ModeUpdateKept ==
  /\ projectFile.json
  /\ "mode" \in DOMAIN projectFile.obj
  /\ projectFile.obj["mode"] = Str(procs.mode.arg)

SetUpdateKept ==
  /\ projectFile.json
  /\ procs.set.arg[1] \in DOMAIN projectFile.obj
  /\ projectFile.obj[procs.set.arg[1]] = procs.set.arg[2]

\* C24: run one after the other, in either order, a mode switch and a
\* project-level config set of another key both succeed and both updates are
\* in the project config; interleaved, they can both succeed and leave a
\* project config without one of the two updates.
C24_SequentialKeepsBoth ==
  (BothDone /\ Sequential) => (BothOk /\ ModeUpdateKept /\ SetUpdateKept)

\* the lost update: both commands reported success, the mode switch is gone
C24_Witness ==
  /\ BothOk
  /\ ~Sequential
  /\ SetUpdateKept
  /\ ~ModeUpdateKept
  /\ claudeMd.builtFrom["mode"] = Str(procs.mode.arg)

-----------------------------------------------------------------------------
\* Paths (node:path as src/src/core/template-engine.ts uses it).  A path is
\* the sequence of its characters, so that startsWith compares text while
\* join and resolve work on the segments between the slashes.

\* the segments of path after those in done and the one begun as current
RECURSIVE SplitFrom(_, _, _)
SplitFrom(path, done, current) ==
  IF path = <<>> THEN Append(done, current)
  ELSE IF Head(path) = "/" THEN SplitFrom(Tail(path), Append(done, current), <<>>)
  ELSE SplitFrom(Tail(path), done, Append(current, Head(path)))

\* the segments of a path: the pieces between its slashes, empty ones included
Split(path) == SplitFrom(path, <<>>, <<>>)

\* the segments left after "", "." and ".." are resolved against those kept so far
RECURSIVE Normalize(_, _)
Normalize(segments, kept) ==
  IF segments = <<>> THEN kept
  ELSE LET seg == Head(segments) IN
       Normalize(Tail(segments),
                 IF seg \in {<<>>, <<".">>} THEN kept
                 ELSE IF seg = <<".", ".">>
                 THEN (IF kept = <<>> THEN kept ELSE SubSeq(kept, 1, Len(kept) - 1))
                 ELSE Append(kept, seg))

\* the absolute path with these segments
RECURSIVE Unsplit(_)
Unsplit(segments) ==
  IF segments = <<>> THEN <<>>
  ELSE <<"/">> \o Head(segments) \o Unsplit(Tail(segments))

\* path.resolve(path) for an absolute path
resolve(path) ==
  LET segments == Normalize(Split(path), <<>>) IN
  IF segments = <<>> THEN <<"/">> ELSE Unsplit(segments)

\* path.join(dir, name) for an absolute dir: concatenates, then normalizes
join(dir, name) == resolve(dir \o <<"/">> \o name)

\* text.startsWith(prefix)
startsWith(text, prefix) ==
  Len(text) >= Len(prefix) /\ SubSeq(text, 1, Len(prefix)) = prefix

-----------------------------------------------------------------------------
\* Template engine (src/src/core/template-engine.ts)

\* getTemplatesDir(): <package>/src/templates, written /s/t
TemplatesDir == <<"/", "s", "/", "t">>

\* a directory of the tree: the state of its template.json ("none",
\* "garbage" or "ok"), the defaultMode a valid one declares, whether it has a
\* files directory
Dir(meta, defaultMode, files) == [meta |-> meta, defaultMode |-> defaultMode, files |-> files]

PlainDir == Dir("none", <<>>, FALSE)

\* t: the tree; readFail: readFile of template.json rejects
getTemplate(t, templateId, readFail) ==
  LET templatesDir == TemplatesDir
      templatePath == join(templatesDir, templateId)
      resolvedPath == resolve(templatePath)
      resolvedTemplatesDir == resolve(templatesDir)
  IN
  IF ~startsWith(resolvedPath, resolvedTemplatesDir) THEN Err("Invalid template ID")
  ELSE IF templatePath \notin DOMAIN t.dirs THEN Err("Template not found")
  ELSE IF t.dirs[templatePath].meta = "none"
  THEN Err("Invalid template (missing template.json)")
  ELSE IF readFail \/ t.dirs[templatePath].meta = "garbage"
  THEN Err("Failed to read template")
  ELSE Ok([id |-> templateId, path |-> templatePath,
           meta |-> [defaultMode |-> t.dirs[templatePath].defaultMode]])

\* the ids listTemplates returns: the directories directly under the
\* templates directory that hold a valid template.json
listTemplates(t, readdirFail) ==
  IF readdirFail THEN Err(ErrIO)
  ELSE Ok({Split(path)[Len(Split(path))] :
             path \in {d \in DOMAIN t.dirs :
                         /\ Len(Split(d)) = Len(Split(TemplatesDir)) + 1
                         /\ startsWith(d, TemplatesDir \o <<"/">>)
                         /\ t.dirs[d].meta = "ok"}})

\* the target directory holds an entry: scaffolded files, .vibe or CLAUDE.md
TargetNotEmpty(t, pf, md) == t.target = "files" \/ pf.exists \/ md.exists

\* scaffoldProject(templateId, options).  fault: "none", "readTemplate"
\* (template.json cannot be read) or "copy" (mkdir, readFile or writeFile
\* rejects while the files are copied: not caught, the promise rejects)
scaffoldProject(t, pf, md, templateId, options, fault) ==
  LET templateResult == getTemplate(t, templateId, fault = "readTemplate") IN
  IF ~templateResult.success THEN [tree |-> t, result |-> templateResult, from |-> <<>>]
  ELSE IF ~t.dirs[templateResult.data.path].files
  THEN [tree |-> t, result |-> Err("Template has no files directory"), from |-> <<>>]
  ELSE IF t.target # "absent" /\ ~options.overwrite /\ TargetNotEmpty(t, pf, md)
  THEN [tree |-> t, result |-> Err("Target directory is not empty"), from |-> <<>>]
  ELSE IF fault = "copy"
  THEN [tree |-> [t EXCEPT !.target = IF TargetNotEmpty(t, pf, md) THEN "files" ELSE "empty"],
        result |-> Throw(ErrIO), from |-> <<templateResult.data.path>>]
  ELSE [tree |-> [t EXCEPT !.target = "files"],
        result |-> Ok([files |-> "files", targetDir |-> "target"]),
        from |-> <<templateResult.data.path>>]

-----------------------------------------------------------------------------
\* Template command (src/src/commands/template.ts)

\* the template ids tried: a, b, ., .., ../u, ../tx and a/../../tx
TemplateIds ==
  { <<"a">>, <<"b">>, <<".">>, <<".", ".">>, <<".", ".", "/", "u">>,
    <<".", ".", "/", "t", "x">>,
    <<"a", "/", ".", ".", "/", ".", ".", "/", "t", "x">> }

\* a template id as the string stored in the project config
Text(templateId) ==
  CASE templateId = <<"a">> -> "a"
    [] templateId = <<"b">> -> "b"
    [] templateId = <<".">> -> "."
    [] templateId = <<".", ".">> -> ".."
    [] templateId = <<".", ".", "/", "u">> -> "../u"
    [] templateId = <<".", ".", "/", "t", "x">> -> "../tx"
    [] OTHER -> "a/../../tx"

\* how a template command ends: the exit of the process and the tree it leaves
TemplateExit(t, gf, pf, md, code, cause, steps) ==
  [tree |-> t, out |-> Exit(gf, pf, md, code, cause, steps, FALSE)]

\* the steps of a scaffold up to the n-th, those in failed marked as failed
TemplateSteps(n, failed) ==
  LET all == <<"getTemplate", "scaffoldProject", "initProject", "loadConfig", "buildClaudeMd">>
  IN [i \in 1..n |-> [step |-> all[i], ok |-> all[i] \notin failed]]

\* scaffoldFromTemplate(templateId, options), then the process.exit(SUCCESS)
\* of templateCommand.  answers: what the user replies to the prompts
scaffoldFromTemplate(gf, pf, md, t, templateId, options, answers, fault, at, dt) ==
  LET templateResult == getTemplate(t, templateId, fault = "readTemplate")
      scaffoldResult ==
        scaffoldProject(t, pf, md, templateId, [overwrite |-> options.force], fault)
      defaultMode == Nullish(templateResult.data.meta.defaultMode, <<"guided">>)[1]
      initResult ==
        initProject(pf, [mode |-> Str(defaultMode), projectName |-> Str("proj"),
                         template |-> Str(Text(templateId))], WFault(fault), at)
      configResult == loadConfig(gf, initResult.file, fault = "loadConfig")
      buildResult == buildClaudeMd(md, configResult.data, fault = "build", at + dt)
  IN
  IF ~templateResult.success
  THEN TemplateExit(t, gf, pf, md, ExitCode.NOT_FOUND, "notFound",
                    TemplateSteps(1, {"getTemplate"}))
  ELSE IF ~options.yes /\ ~answers.confirmed
  THEN TemplateExit(t, gf, pf, md, ExitCode.SUCCESS, "cancelled", TemplateSteps(1, {}))
  ELSE IF ~scaffoldResult.result.success
  THEN TemplateExit(scaffoldResult.tree, gf, pf, md, ExitCode.GENERAL_ERROR,
                    IF "thrown" \in DOMAIN scaffoldResult.result THEN "uncaught" ELSE "scaffold",
                    TemplateSteps(2, {"scaffoldProject"}))
  ELSE IF ~initResult.result.success
  THEN TemplateExit(scaffoldResult.tree, gf, initResult.file, md, ExitCode.CONFIG_ERROR,
                    "config", TemplateSteps(3, {"initProject"}))
  ELSE IF ~configResult.success
  THEN TemplateExit(scaffoldResult.tree, gf, initResult.file, md, ExitCode.SUCCESS,
                    "done", TemplateSteps(4, {"loadConfig"}))
  ELSE TemplateExit(scaffoldResult.tree, gf, initResult.file, buildResult.file,
                    ExitCode.SUCCESS, "done",
                    TemplateSteps(5, IF buildResult.result.success THEN {}
                                     ELSE {"buildClaudeMd"}))

\* templateCommand(name, options): name is <<>> when the argument is left out
templateCommand(gf, pf, md, t, name, options, answers, fault, at, dt) ==
  LET listResult == listTemplates(t, fault = "readdir") IN
  IF Len(name) > 0 /\ name[1] # <<>>
  THEN scaffoldFromTemplate(gf, pf, md, t, name[1], options, answers, fault, at, dt)
  ELSE IF ~listResult.success
  THEN TemplateExit(t, gf, pf, md, ExitCode.GENERAL_ERROR, "list", <<>>)
  ELSE IF options.yes \/ listResult.data = {}
  THEN TemplateExit(t, gf, pf, md, ExitCode.SUCCESS, "listed", <<>>)
  ELSE scaffoldFromTemplate(gf, pf, md, t,
                            CHOOSE id \in listResult.data : TRUE,
                            options, answers, fault, at, dt)

-----------------------------------------------------------------------------
\* The template engine called directly, and `vibe template` run once in a
\* target directory, on the trees a package and its surroundings can form

\* /s/t/a, the template a, in the states it can be shipped in
TemplateA == <<"/", "s", "/", "t", "/", "a">>
TemplateADirs ==
  { Dir("none", <<>>, TRUE), Dir("garbage", <<>>, TRUE), Dir("ok", <<>>, FALSE),
    Dir("ok", <<>>, TRUE), Dir("ok", <<"expert">>, TRUE) }

\* /s/tx, a directory next to the templates directory whose name starts like it
Sibling == <<"/", "s", "/", "t", "x">>

\* the trees: /s and /s/t exist; /s/t/a and /s/tx may
Trees ==
  LET base == (<<"/", "s">> :> PlainDir) @@ (TemplatesDir :> PlainDir)
      withA == {base} \cup {base @@ (TemplateA :> d) : d \in TemplateADirs}
  IN withA \cup {dirs @@ (Sibling :> Dir("ok", <<"learning">>, TRUE)) : dirs \in withA}

InitTemplate ==
  /\ globalFile \in InitialGlobalFiles
  /\ \/ /\ projectFile = Absent
        /\ claudeMd = NoDoc
        /\ tree \in [dirs : Trees, target : {"absent", "empty", "files"}]
     \/ /\ projectFile = HandWrittenProject
        /\ claudeMd = Doc(EmptyObj, 0)
        /\ tree \in [dirs : Trees, target : {"files"}]
  /\ now = 0
  /\ last = NoCall
  /\ mIn = <<>>
  /\ mOut = <<>>
  /\ procs = <<>>

GetTemplateCall ==
  \E templateId \in TemplateIds, readFail \in BOOLEAN :
    /\ last = NoCall
    /\ last' = [op |-> "getTemplate", templateId |-> templateId,
                result |-> getTemplate(tree, templateId, readFail)]
    /\ UNCHANGED <<globalFile, projectFile, claudeMd, now, mIn, mOut, procs, tree>>

ScaffoldProjectCall ==
  \E templateId \in TemplateIds, overwrite \in BOOLEAN,
     fault \in {"none", "readTemplate", "copy"} :
    \E r \in {scaffoldProject(tree, projectFile, claudeMd, templateId,
                               [overwrite |-> overwrite], fault)} :
    /\ last = NoCall
    /\ tree' = r.tree
    /\ last' = [op |-> "scaffoldProject", templateId |-> templateId,
                result |-> r.result, from |-> r.from]
    /\ UNCHANGED <<globalFile, projectFile, claudeMd, now, mIn, mOut, procs>>

\* one `vibe template [name]` in the target directory, at time 1
TemplateCommand ==
  /\ last = NoCall
  /\ \E name \in {<<>>} \cup {<<id>> : id \in TemplateIds}, force \in BOOLEAN, yes \in BOOLEAN,
        fault \in {"none", "readdir", "readTemplate", "copy", "writeDenied", "writePartial",
                   "loadConfig", "build"} :
     \E confirmed \in (IF yes THEN {TRUE} ELSE BOOLEAN) :
     \E dt \in 0..(IF fault = "none" THEN 1 ELSE 0) :
     \E r \in {templateCommand(globalFile, projectFile, claudeMd, tree, name,
                                [force |-> force, yes |-> yes], [confirmed |-> confirmed],
                                fault, now + 1, dt)} :
       /\ tree' = r.tree
       /\ globalFile' = r.out.global
       /\ projectFile' = r.out.project
       /\ claudeMd' = r.out.claudeMd
       /\ now' = now + 1 + dt
       /\ last' = [op |-> "template", name |-> name, exit |-> r.out.exit,
                   cause |-> r.out.cause, steps |-> r.out.steps]
       /\ UNCHANGED <<mIn, mOut, procs>>

NextTemplate == GetTemplateCall \/ ScaffoldProjectCall \/ TemplateCommand

SpecTemplate == InitTemplate /\ [][NextTemplate]_vars

-----------------------------------------------------------------------------
\* Properties of the template engine and the template command
\* (checked under SpecTemplate)

\* a step of the last command failed
StepFailed(step) ==
  \E i \in 1..Len(last.steps) : last.steps[i].step = step /\ ~last.steps[i].ok

StepOk(step) ==
  \E i \in 1..Len(last.steps) : last.steps[i].step = step /\ last.steps[i].ok

\* C26: a template command that has written the project config and then
\* fails to load the configuration or to generate CLAUDE.md exits non-zero.
C26_TemplateReportsFailure ==
  (Called("template") /\ StepOk("initProject")
     /\ (StepFailed("loadConfig") \/ StepFailed("buildClaudeMd"))) =>
    last.exit # 0

\* the resolved path of the template an id names
ResolvedSegments(templateId) == Split(resolve(join(TemplatesDir, templateId)))

\* the path lies below the templates directory
StrictlyInside(segments) ==
  LET root == Split(TemplatesDir) IN
  Len(segments) > Len(root) /\ SubSeq(segments, 1, Len(root)) = root

\* C29: getTemplate answers an id whose resolved path is not strictly inside
\* the templates directory with 'Invalid template ID', and scaffoldProject
\* copies files only from a directory inside the templates directory.
C29_OutsideRejected ==
  /\ (Called("getTemplate") /\ ~StrictlyInside(ResolvedSegments(last.templateId))) =>
       last.result = Err("Invalid template ID")
  /\ (Called("scaffoldProject") /\ last.from # <<>>) =>
       StrictlyInside(Split(last.from[1]))

-----------------------------------------------------------------------------
\* Claude launcher (src/src/core/claude-launcher.ts) under the end of
\* startCommand (src/unnamed/part_000): the start process, the child it
\* spawns, and the events the two receive

\* the signals launchClaudeCode installs signalHandler for
ForwardedSignals == {"SIGINT", "SIGTERM", "SIGHUP"}

\* the exit codes Claude Code ends with on its own
ClaudeExitCodes == {0, 1, 2}

\* code ?? 0 for the code of an 'exit' event: <<>> is null
CodeOrZero(code) == Nullish(code, <<0>>)[1]

\* the start process: where it stands, the signals it has a listener for, the
\* signals delivered to it, what runClaudeCode resolved with and the code it
\* exited with
StartProcess(pc, listeners, delivered, resolved, exit) ==
  [pc |-> pc, listeners |-> listeners, delivered |-> delivered, resolved |-> resolved,
   exit |-> exit]

\* the child: "none", "failed" (could not be spawned), "running", "exited"
\* (with a code) or "killed" (by a signal, its code null); received: the
\* signals sent to it by child.kill
ChildProcess(state, code, signal, received) ==
  [state |-> state, code |-> code, signal |-> signal, received |-> received]

InitLaunch ==
  /\ globalFile \in {Absent} \cup {JsonFile(o, 0) : o \in GlobalObjects}
  /\ projectFile \in {InitializedProject, HandWrittenProject}
  /\ claudeMd = Doc(loadConfig(globalFile, projectFile, FALSE).data, 0)
  /\ now = 0
  /\ last = NoCall
  /\ mIn = <<>>
  /\ mOut = <<>>
  /\ tree = <<>>
  /\ procs = [start |-> StartProcess("runClaudeCode", {}, <<>>, <<>>, <<>>),
              child |-> ChildProcess("none", <<>>, <<>>, <<>>)]

Launching == "start" \in DOMAIN procs

\* runClaudeCode up to its await of waitForExit: findClaudeCode, spawn, the
\* three process.on and the listeners on the child; a failed find ends the
\* start with GENERAL_ERROR
LaunchClaudeCode ==
  /\ Launching
  /\ procs.start.pc = "runClaudeCode"
  /\ \E found \in BOOLEAN, spawned \in BOOLEAN :
       procs' =
         IF ~found
         THEN [procs EXCEPT !.start = StartProcess("exited", {}, <<>>, <<Err("not found")>>,
                                                   <<ExitCode.GENERAL_ERROR>>)]
         ELSE [start |-> StartProcess("waitForExit", ForwardedSignals, <<>>, <<>>, <<>>),
               child |-> ChildProcess(IF spawned THEN "running" ELSE "failed",
                                      <<>>, <<>>, <<>>)]
  /\ UNCHANGED <<globalFile, projectFile, claudeMd, now, last, mIn, mOut, tree>>

\* a signal is delivered to the start process: signalHandler calls
\* child.kill(signal), which reaches the child only while it runs; without a
\* listener the signal ends the start process
Signal ==
  /\ Launching
  /\ procs.start.pc = "waitForExit"
  /\ Len(procs.start.delivered) < MaxSignals
  /\ \E signal \in ForwardedSignals :
       procs' =
         IF signal \notin procs.start.listeners
         THEN [procs EXCEPT !.start.pc = "exited",
                            !.start.delivered = Append(@, signal),
                            !.start.exit = <<signal>>]
         ELSE [procs EXCEPT !.start.delivered = Append(@, signal),
                            !.child.received =
                              IF procs.child.state = "running" THEN Append(@, signal) ELSE @]
  /\ UNCHANGED <<globalFile, projectFile, claudeMd, now, last, mIn, mOut, tree>>

\* Claude Code ends on its own with an exit code
ChildExits ==
  /\ Launching
  /\ procs.child.state = "running"
  /\ \E code \in ClaudeExitCodes :
       procs' = [procs EXCEPT !.child.state = "exited", !.child.code = <<code>>]
  /\ UNCHANGED <<globalFile, projectFile, claudeMd, now, last, mIn, mOut, tree>>

\* Claude Code is terminated by a signal: one forwarded to it, or one sent to
\* it from elsewhere
ChildKilled ==
  /\ Launching
  /\ procs.child.state = "running"
  /\ \E signal \in {procs.child.received[i] : i \in 1..Len(procs.child.received)}
                     \cup {"SIGKILL"} :
       procs' = [procs EXCEPT !.child.state = "killed", !.child.signal = <<signal>>]
  /\ UNCHANGED <<globalFile, projectFile, claudeMd, now, last, mIn, mOut, tree>>

\* the child's 'exit' event: the listener of launchClaudeCode removes the
\* three signal listeners, the one of waitForExit resolves with code ?? 0
OnExit ==
  /\ Launching
  /\ procs.start.pc = "waitForExit"
  /\ procs.child.state \in {"exited", "killed"}
  /\ procs' = [procs EXCEPT !.start.pc = "resolved",
                            !.start.listeners = {},
                            !.start.resolved = <<Ok(CodeOrZero(procs.child.code))>>]
  /\ UNCHANGED <<globalFile, projectFile, claudeMd, now, last, mIn, mOut, tree>>

\* the child's 'error' event (the spawn failed): the listener of waitForExit
\* resolves with 1; no 'exit' event follows
OnError ==
  /\ Launching
  /\ procs.start.pc = "waitForExit"
  /\ procs.child.state = "failed"
  /\ procs' = [procs EXCEPT !.start.pc = "resolved",
                            !.start.resolved = <<Ok(1)>>]
  /\ UNCHANGED <<globalFile, projectFile, claudeMd, now, last, mIn, mOut, tree>>

\* startCommand after runClaudeCode: process.exit(launchResult.data)
ProcessExit ==
  /\ Launching
  /\ procs.start.pc = "resolved"
  /\ procs' = [procs EXCEPT !.start.pc = "exited",
                            !.start.exit = <<procs.start.resolved[1].data>>]
  /\ UNCHANGED <<globalFile, projectFile, claudeMd, now, last, mIn, mOut, tree>>

NextLaunch ==
  \/ LaunchClaudeCode
  \/ Signal
  \/ ChildExits
  \/ ChildKilled
  \/ OnExit
  \/ OnError
  \/ ProcessExit

SpecLaunch == InitLaunch /\ [][NextLaunch]_vars

-----------------------------------------------------------------------------
\* Properties of the launcher (checked under SpecLaunch)

\* runClaudeCode has resolved after a launch
Resolved == procs.start.pc \in {"resolved", "exited"} /\ procs.child.state # "none"

\* C27: while the child runs, a SIGINT, SIGTERM or SIGHUP delivered to the
\* start process is sent to the child as the same signal; once runClaudeCode
\* has resolved, on the child's exit or on its error, none of the three
\* listeners is left on the start process.
C27_SignalsForwardedThenRemoved ==
  /\ [](Resolved => procs.start.listeners = {})
  /\ [][(procs.start.delivered' # procs.start.delivered /\ procs.child.state = "running") =>
          procs.child.received' =
            Append(procs.child.received,
                   procs.start.delivered'[Len(procs.start.delivered')])]_vars

\* C28: runClaudeCode resolves with n when the child exited with code n and
\* with 1 on the child's error, and a start that launched exits with what it
\* resolved with: with 0 only when the child itself exited with code 0.
C28_ExitsWithChildCode ==
  Resolved =>
    /\ procs.child.state = "exited" => procs.start.resolved = <<Ok(procs.child.code[1])>>
    /\ procs.child.state = "failed" => procs.start.resolved = <<Ok(1)>>
    /\ procs.start.pc = "exited" =>
         /\ procs.start.exit = <<procs.start.resolved[1].data>>
         /\ procs.start.exit = <<0>> =>
              (procs.child.state = "exited" /\ procs.child.code = <<0>>)

====
